---- MODULE Spec2Model ----
(***************************************************************************)
(* tishcode webhook server: the attempt store (src/src/db.py) and the     *)
(* background tasks that gate the fix and review actions on it            *)
(* (src/server.py).                                                        *)
(*                                                                         *)
(* Background tasks are synchronous functions that FastAPI runs on a      *)
(* thread pool, so several of them run at once.  Every store function     *)
(* opens its own SQLite connection; a task is therefore modelled as a     *)
(* process whose steps are the individual SQL statements and external     *)
(* calls of its code.  An INSERT ... ON CONFLICT statement takes the      *)
(* database write lock and stages the new row, conn.commit() publishes    *)
(* it and releases the lock; SELECTs read the committed table.  A writer  *)
(* that finds the lock taken waits for it (SQLite's busy handler).        *)
(***************************************************************************)
EXTENDS Integers, Sequences, FiniteSets, TLC

\* ---------------------------------------------------------------- bounds
NumTasks == 2
MAX_RETRIES == 2
MaxHeaderLen == 4
MaxLinks == 2
MaxLine == 2
MaxLen == 4
MaxCalls == 2
MaxSuffix == 3
\* events accepted in a run: enough for the retry gate to close and one more
MaxTriggers == MAX_RETRIES + 1
\* events accepted in a sequential run: the gate closes and two more follow
MaxSeqTriggers == MAX_RETRIES + 2
\* check-suite events accepted while the runs change: one for every worker
MaxCiTriggers == NumTasks
\* requests accepted for PRs; requests without a PR are not limited
MaxHookTriggers == NumTasks - 1
\* events for PRs accepted while statements fail: the other worker is left
\* to events without a PR (issues, URLs that do not parse)
MaxFailTriggers == NumTasks - 1
\* calls of the nine file tools in one run where all nine are called
MaxToolCalls == MaxCalls - 1

Tasks == 1..NumTasks

\* canonical PR keys "{owner}/{repo}#{pr_number}" of the URLs used
Keys == {"acme/widgets#42", "acme/gears#7"}
BadUrl == "not-a-pr-url"
Urls == Keys \cup {BadUrl}

\* statuses a workflow run can report
RunStatuses == {"completed", "in_progress"}
RunLists == {<<>>} \cup {<<a>> : a \in RunStatuses}
                   \cup {<<a, b>> : a \in RunStatuses, b \in RunStatuses}

\* ------------------------------------------------------ webhook requests
\* X-GitHub-Event headers ("" when the header is absent) and payload actions
\* ("none" when the payload has no "action")
Events == {"ping", "issues", "pull_request_review", "check_suite", "push", ""}
Actions == {"opened", "submitted", "completed", "none"}

NoUrl == ""
IssueUrl == "https://github.com/acme/widgets/issues/1"

\* check_suite.pull_requests, each entry named by the key of the URL that
\* the handler builds from repository.html_url and the entry's number
MaxPrs == Cardinality(Keys)
PrLists == {<<>>} \cup {<<a>> : a \in Keys}
                  \cup {l \in Keys \X Keys : l[1] # l[2]}

\* the body before request.json() has run
NoPayload ==
    [parsed |-> FALSE, event |-> "", action |-> "none",
     issue_url |-> NoUrl, pr_url |-> NoUrl, prs |-> <<>>]

\* parsed requests; a field that payloads of the request's event do not
\* carry is left at its default
Payloads ==
    {p \in [parsed : {TRUE}, event : Events, action : Actions,
            issue_url : {NoUrl, IssueUrl}, pr_url : {NoUrl} \cup Urls,
            prs : PrLists] :
        /\ (p.issue_url # NoUrl => p.event = "issues")
        /\ (p.pr_url # NoUrl => p.event = "pull_request_review")
        /\ (p.prs # <<>> => p.event = "check_suite")}

\* an X-Hub-Signature-256 header is a sequence of these pieces: names of
\* algorithms, the separator, hex digits, a character outside ASCII
SigTokens == {"sha256", "sha1", "=", "a", "3", "U+00E9"}
NonAscii == {"U+00E9"}
Headers == UNION {[1..n -> SigTokens] : n \in 0..MaxHeaderLen}
Bodies == {"{}", "[]"}

\* the payloads that name no PR
NoPrPayloads == {p \in Payloads : p.pr_url \notin Keys /\ p.prs = <<>>}

\* ----------------------------------------------------------- agent runs
\* clone_temp_repo gives every run a directory of its own
RepoPath(t) == <<"repos", t>>
Trees == {RepoPath(t) : t \in Tasks}
\* _base_dir = None
NoTree == <<>>

\* ---------------------------------------------------------- branch names
\* A name is the sequence of its characters; the "origin/" that the name of
\* a ref of the remote begins with is taken as one.
\* str(n) of an int n >= 0: its decimal digits
Digit(d) == <<"0", "1", "2", "3", "4", "5", "6", "7", "8", "9">>[d + 1]
RECURSIVE Decimal(_)
Decimal(n) ==
    IF n < 10 THEN <<Digit(n)>> ELSE Append(Decimal(n \div 10), Digit(n % 10))

\* f"{base_name}_{attempt}"
Candidate(name, n) == name \o <<"_">> \o Decimal(n)
\* f"origin/{name}"
OriginRef(name) == <<"origin/">> \o name

\* faulty variant: the name is looked up as it is, without "origin/"
Taken_NoPrefix(refs, name) == name \in refs

\* f"origin/{name}" in remote_branches
Taken(refs, name) == OriginRef(name) \in refs

\* the names asked for, and the refs that the remote can have: the name
\* itself, the name with the numbers up to MaxSuffix, and others
BaseNames == {<<"b">>, <<"b", "_", "1">>}
RefPool ==
    {OriginRef(<<"b">>), OriginRef(<<"m">>), OriginRef(<<"b", "_", "1", "_", "1">>),
     <<"upstream/", "b">>}
      \cup {OriginRef(Candidate(<<"b">>, k)) : k \in 1..MaxSuffix}

\* ------------------------------------------------------------ file tools
\* A path is the sequence of its names below "/". An argument of a tool
\* (and the target of a symbolic link) is absolute or relative and may have
\* "." and ".." among its segments.
Abs(segs) == [abs |-> TRUE, segs |-> segs]
Rel(segs) == [abs |-> FALSE, segs |-> segs]

\* what a path of the filesystem holds
NoEntry == [type |-> "none", data |-> <<>>, target |-> Rel(<<>>)]
Dir == [type |-> "dir", data |-> <<>>, target |-> Rel(<<>>)]
File(data) == [type |-> "file", data |-> data, target |-> Rel(<<>>)]
Link(target) == [type |-> "link", data |-> <<>>, target |-> target]

\* a filesystem maps the paths that exist to what they hold
Lookup(F, p) == IF p \in DOMAIN F THEN F[p] ELSE NoEntry
Put(F, p, e) == [q \in DOMAIN F \cup {p} |-> IF q = p THEN e ELSE F[q]]
Remove(F, p) == [q \in DOMAIN F \ {p} |-> F[q]]
FsOf(S) == [p \in {e[1] : e \in S} |-> (CHOOSE e \in S : e[1] = p)[2]]

Parent(p) == IF p = <<>> THEN <<>> ELSE SubSeq(p, 1, Len(p) - 1)
\* a in b.parents
IsAncestor(a, b) == Len(a) < Len(b) /\ SubSeq(b, 1, Len(a)) = a
\* p is b or below b
Within(b, p) == p = b \/ IsAncestor(b, p)

\* what resolving gives when the links form a loop
ELoop == <<"", "ELOOP">>

\* os.path.realpath: the segments are taken one by one from directory cur;
\* "." stays, ".." goes to the parent, a name that is a symbolic link is
\* replaced by the link's target, a name that does not exist is kept. More
\* than MaxLinks links in a row is a loop.
RECURSIVE Realpath(_, _, _, _)
Realpath(F, cur, segs, fuel) ==
    IF segs = <<>> THEN cur
    ELSE LET seg == Head(segs)
             rest == Tail(segs)
             nxt == Append(cur, seg)
         IN  IF seg = "." THEN Realpath(F, cur, rest, fuel)
             ELSE IF seg = ".." THEN Realpath(F, Parent(cur), rest, fuel)
             ELSE IF Lookup(F, nxt).type # "link"
             THEN Realpath(F, nxt, rest, fuel)
             ELSE IF fuel = 0 THEN ELoop
             ELSE Realpath(F,
                           IF Lookup(F, nxt).target.abs THEN <<>> ELSE cur,
                           Lookup(F, nxt).target.segs \o rest,
                           fuel - 1)

\* Path(p).resolve() of an absolute path; raises RuntimeError("Symlink
\* loop") on a loop (CPython up to 3.12), given here as ELoop
Resolved(F, p) == Realpath(F, <<>>, p, MaxLinks)

\* _base_dir / relative_path: an absolute argument replaces the base
Joined(base, arg) == IF arg.abs THEN arg.segs ELSE base \o arg.segs

\* faulty variant: ".." is removed by name, links are not followed
RECURSIVE Normpath(_, _)
Normpath(cur, segs) ==
    IF segs = <<>> THEN cur
    ELSE IF Head(segs) = "." THEN Normpath(cur, Tail(segs))
    ELSE IF Head(segs) = ".." THEN Normpath(Parent(cur), Tail(segs))
    ELSE Normpath(Append(cur, Head(segs)), Tail(segs))

check_path_Lexical(F, base, arg) ==
    IF base = NoTree THEN [ok |-> FALSE, path |-> <<>>]
    ELSE IF Within(base, Normpath(<<>>, Joined(base, arg)))
    THEN [ok |-> TRUE, path |-> Normpath(<<>>, Joined(base, arg))]
    ELSE [ok |-> FALSE, path |-> base]

\* _check_path(relative_path) with _base_dir = base, on filesystem F
check_path(F, base, arg) ==
    IF base = NoTree THEN [ok |-> FALSE, path |-> <<>>]
    ELSE LET base_resolved == Resolved(F, base)
             resolved == Resolved(F, Joined(base, arg))
         IN  IF base_resolved = ELoop \/ resolved = ELoop
             THEN [ok |-> FALSE, path |-> base]
             ELSE IF resolved = base_resolved
                     \/ IsAncestor(base_resolved, resolved)
             THEN [ok |-> TRUE, path |-> resolved]
             ELSE [ok |-> FALSE, path |-> base_resolved]

\* str.split("\n") and "\n".join, on sequences of characters. The lines
\* of a text are the lines before one of its "\n" and the lines after it;
\* the "\n" taken is the first one from the middle on, or else the last one
\* before the middle, which keeps the recursion shallow on long texts.
RECURSIVE split(_)
split(str) ==
    IF \A i \in 1..Len(str) : str[i] # "\n" THEN <<str>>
    ELSE LET mid == (Len(str) + 1) \div 2
             i == IF \E j \in mid..Len(str) : str[j] = "\n"
                  THEN CHOOSE j \in mid..Len(str) :
                           str[j] = "\n" /\ \A k \in mid..(j - 1) : str[k] # "\n"
                  ELSE CHOOSE j \in 1..(mid - 1) :
                           str[j] = "\n"
                             /\ \A k \in (j + 1)..(mid - 1) : str[k] # "\n"
         IN  split(SubSeq(str, 1, i - 1)) \o split(SubSeq(str, i + 1, Len(str)))

RECURSIVE join(_)
join(lines) ==
    IF lines = <<>> THEN <<>>
    ELSE IF Len(lines) = 1 THEN lines[1]
    ELSE lines[1] \o <<"\n">> \o join(Tail(lines))

\* the paths from the first name of p down to p
Prefixes(p) == {SubSeq(p, 1, n) : n \in 1..Len(p)}

\* Path(p).mkdir(parents=True, exist_ok=True): fails if p or a directory
\* above it exists and is no directory, and then creates nothing
Mkdir(F, p) ==
    IF Resolved(F, p) = ELoop
       \/ \E q \in Prefixes(Resolved(F, p)) : Lookup(F, q).type = "file"
    THEN [ok |-> FALSE, fs |-> F]
    ELSE [ok |-> TRUE,
          fs |-> [q \in DOMAIN F \cup Prefixes(Resolved(F, p)) |->
                    IF q \in DOMAIN F THEN F[q] ELSE Dir]]

\* Path(p).write_text(data): the system follows links; fails on a
\* directory and where the directory of the file does not exist
WriteText(F, p, data) ==
    LET phys == Resolved(F, p) IN
    IF \/ phys \in {ELoop, <<>>}
       \/ Lookup(F, phys).type = "dir"
       \/ (Parent(phys) # <<>> /\ Lookup(F, Parent(phys)).type # "dir")
    THEN [ok |-> FALSE, fs |-> F]
    ELSE [ok |-> TRUE, fs |-> Put(F, phys, File(data))]

\* what a tool call gives back: the filesystem after it and the kind of
\* string it returns ("ok", or an error: "outside" the repository,
\* "not_found", line numbers out of "range", any other "error")
Outcome(F, result) == [fs |-> F, result |-> result]

\* faulty variant: the file is written whatever _check_path says
save_file_Unchecked(F, base, file_name, contents) ==
    LET w == WriteText(F, Joined(base, file_name), contents)
    IN  Outcome(w.fs, IF w.ok THEN "ok" ELSE "error")

\* save_file(file_name, contents)
save_file(F, base, file_name, contents) ==
    LET c == check_path(F, base, file_name) IN
    IF ~c.ok THEN Outcome(F, "outside")
    ELSE IF ~Mkdir(F, Parent(c.path)).ok THEN Outcome(F, "error")
    ELSE LET w == WriteText(Mkdir(F, Parent(c.path)).fs, c.path, contents)
         IN  Outcome(w.fs, IF w.ok THEN "ok" ELSE "error")

\* a byte that is not UTF-8; read_text(encoding="utf-8") of a file that
\* holds one raises UnicodeDecodeError
BadByte == "0xFF"
Decodable(data) == \A i \in 1..Len(data) : data[i] # BadByte

\* the part of insert_lines / replace_file_chunk from read_text on:
\* kind of error of Path(p).read_text(), "" if it returns
ReadError(F, p) ==
    IF Resolved(F, p) = ELoop THEN "error"
    ELSE IF Lookup(F, Resolved(F, p)).type = "none" THEN "not_found"
    ELSE IF Lookup(F, Resolved(F, p)).type = "dir" THEN "error"
    ELSE IF ~Decodable(Lookup(F, Resolved(F, p)).data) THEN "error"
    ELSE ""

ReadText(F, p) == Lookup(F, Resolved(F, p)).data

\* lines[a:b] of Python for 0 <= a, 0 <= b: 0-indexed from a to b - 1, and
\* b beyond the end is taken as the end
Slice(lines, a, b) ==
    SubSeq(lines, a + 1, IF b > Len(lines) THEN Len(lines) ELSE b)

\* faulty variant: the file is truncated before the line number is checked
insert_lines_WriteFirst(F, base, file_name, after_line, content) ==
    LET c == check_path(F, base, file_name) IN
    IF ~c.ok THEN Outcome(F, "outside")
    ELSE IF ReadError(F, c.path) # "" THEN Outcome(F, ReadError(F, c.path))
    ELSE LET lines == split(ReadText(F, c.path))
             total_lines == Len(lines)
             new_lines == IF content = <<>> THEN <<>> ELSE split(content)
         IN  IF after_line < 0 \/ after_line > total_lines
             THEN Outcome(WriteText(F, c.path, <<>>).fs, "range")
             ELSE Outcome(
                    WriteText(F, c.path,
                              join(Slice(lines, 0, after_line) \o new_lines
                                   \o Slice(lines, after_line, total_lines))).fs,
                    "ok")

\* faulty variant: the new lines go one line further down
insert_lines_OffByOne(F, base, file_name, after_line, content) ==
    LET c == check_path(F, base, file_name) IN
    IF ~c.ok THEN Outcome(F, "outside")
    ELSE IF ReadError(F, c.path) # "" THEN Outcome(F, ReadError(F, c.path))
    ELSE LET lines == split(ReadText(F, c.path))
             total_lines == Len(lines)
             new_lines == IF content = <<>> THEN <<>> ELSE split(content)
         IN  IF after_line < 0 \/ after_line > total_lines
             THEN Outcome(F, "range")
             ELSE Outcome(
                    WriteText(F, c.path,
                              join(Slice(lines, 0, after_line + 1) \o new_lines
                                   \o Slice(lines, after_line + 1,
                                            total_lines))).fs,
                    "ok")

\* faulty variant: the new lines take the place of the line that follows
insert_lines_Overwrite(F, base, file_name, after_line, content) ==
    LET c == check_path(F, base, file_name) IN
    IF ~c.ok THEN Outcome(F, "outside")
    ELSE IF ReadError(F, c.path) # "" THEN Outcome(F, ReadError(F, c.path))
    ELSE LET lines == split(ReadText(F, c.path))
             total_lines == Len(lines)
             new_lines == IF content = <<>> THEN <<>> ELSE split(content)
         IN  IF after_line < 0 \/ after_line > total_lines
             THEN Outcome(F, "range")
             ELSE Outcome(
                    WriteText(F, c.path,
                              join(Slice(lines, 0, after_line) \o new_lines
                                   \o Slice(lines, after_line + Len(new_lines),
                                            total_lines))).fs,
                    "ok")

\* insert_lines(file_name, after_line, content)
insert_lines(F, base, file_name, after_line, content) ==
    LET c == check_path(F, base, file_name) IN
    IF ~c.ok THEN Outcome(F, "outside")
    ELSE IF ReadError(F, c.path) # "" THEN Outcome(F, ReadError(F, c.path))
    ELSE LET lines == split(ReadText(F, c.path))
             total_lines == Len(lines)
             new_lines == IF content = <<>> THEN <<>> ELSE split(content)
         IN  IF after_line < 0 THEN Outcome(F, "range")
             ELSE IF after_line > total_lines THEN Outcome(F, "range")
             ELSE Outcome(
                    WriteText(F, c.path,
                              join(Slice(lines, 0, after_line) \o new_lines
                                   \o Slice(lines, after_line, total_lines))).fs,
                    "ok")

\* replace_file_chunk(file_name, start_line, end_line, new_content)
replace_file_chunk(F, base, file_name, start_line, end_line, new_content) ==
    LET c == check_path(F, base, file_name) IN
    IF ~c.ok THEN Outcome(F, "outside")
    ELSE IF ReadError(F, c.path) # "" THEN Outcome(F, ReadError(F, c.path))
    ELSE LET lines == split(ReadText(F, c.path))
             total_lines == Len(lines)
             new_lines == IF new_content = <<>> THEN <<>> ELSE split(new_content)
         IN  IF start_line < 1 \/ end_line < 1 THEN Outcome(F, "range")
             ELSE IF start_line > end_line THEN Outcome(F, "range")
             ELSE IF start_line > total_lines THEN Outcome(F, "range")
             ELSE Outcome(
                    WriteText(F, c.path,
                              join(Slice(lines, 0, start_line - 1) \o new_lines
                                   \o Slice(lines, end_line, total_lines))).fs,
                    "ok")

\* delete_file(file_name): rmdir for a directory (fails unless it is
\* empty), unlink for anything else
delete_file(F, base, file_name) ==
    LET c == check_path(F, base, file_name) IN
    IF ~c.ok THEN Outcome(F, "outside")
    ELSE IF Lookup(F, c.path).type = "none" THEN Outcome(F, "not_found")
    ELSE IF Lookup(F, c.path).type = "link"
            /\ Resolved(F, c.path) # ELoop
            /\ Lookup(F, Resolved(F, c.path)).type = "dir"
    THEN Outcome(F, "error")
    ELSE IF Lookup(F, c.path).type = "dir"
            /\ (c.path = <<>> \/ \E q \in DOMAIN F : IsAncestor(c.path, q))
    THEN Outcome(F, "error")
    ELSE Outcome(Remove(F, c.path), "ok")

\* what a tool that reads gives back: the filesystem after the call, the
\* kind of the string it returns and, when that is "ok", the text asked for
Returned(F, result, text) == [fs |-> F, result |-> result, text |-> text]

\* faulty variant: no except clause after read_text
read_file_NoExcept(F, base, file_name) ==
    LET c == check_path(F, base, file_name) IN
    IF ~c.ok THEN Returned(F, "outside", <<>>)
    ELSE IF ReadError(F, c.path) # "" THEN Returned(F, "raised", <<>>)
    ELSE Returned(F, "ok", ReadText(F, c.path))

\* read_file(file_name)
read_file(F, base, file_name) ==
    LET c == check_path(F, base, file_name) IN
    IF ~c.ok THEN Returned(F, "outside", <<>>)
    ELSE IF ReadError(F, c.path) # ""
    THEN Returned(F, ReadError(F, c.path), <<>>)
    ELSE Returned(F, "ok", ReadText(F, c.path))

\* faulty variant: end_line beyond the last line is refused
read_file_chunk_Strict(F, base, file_name, start_line, end_line) ==
    LET c == check_path(F, base, file_name) IN
    IF ~c.ok THEN Returned(F, "outside", <<>>)
    ELSE IF ReadError(F, c.path) # ""
    THEN Returned(F, ReadError(F, c.path), <<>>)
    ELSE LET lines == split(ReadText(F, c.path))
             total_lines == Len(lines)
         IN  IF start_line < 1 \/ start_line > end_line
                \/ end_line > total_lines
             THEN Returned(F, "range", <<>>)
             ELSE Returned(F, "ok",
                           join(Slice(lines, start_line - 1, end_line)))

\* read_file_chunk(file_name, start_line, end_line)
read_file_chunk(F, base, file_name, start_line, end_line) ==
    LET c == check_path(F, base, file_name) IN
    IF ~c.ok THEN Returned(F, "outside", <<>>)
    ELSE IF ReadError(F, c.path) # ""
    THEN Returned(F, ReadError(F, c.path), <<>>)
    ELSE LET lines == split(ReadText(F, c.path))
             total_lines == Len(lines)
         IN  IF start_line < 1 \/ end_line < 1
             THEN Returned(F, "range", <<>>)
             ELSE IF start_line > end_line THEN Returned(F, "range", <<>>)
             ELSE IF start_line > total_lines
             THEN Returned(F, "range", <<>>)
             ELSE Returned(F, "ok",
                           join(Slice(lines, start_line - 1, end_line)))

\* Path(p).is_dir() and Path(p).is_file(): links are followed, and what does
\* not exist or cannot be resolved is neither
is_dir(F, p) == Resolved(F, p) # ELoop /\ Lookup(F, Resolved(F, p)).type = "dir"
is_file(F, p) ==
    Resolved(F, p) # ELoop /\ Lookup(F, Resolved(F, p)).type = "file"

\* faulty variant: a directory that is not there is made
list_files_Mkdir(F, base, directory) ==
    LET c == check_path(F, base, directory) IN
    IF ~c.ok THEN Returned(F, "outside", <<>>)
    ELSE IF ~is_dir(F, c.path) THEN Returned(Mkdir(F, c.path).fs, "ok", <<>>)
    ELSE Returned(F, "ok", <<>>)

\* list_files(directory); the listing itself is not modelled
list_files(F, base, directory) ==
    LET c == check_path(F, base, directory) IN
    IF ~c.ok THEN Returned(F, "outside", <<>>)
    ELSE IF ~is_dir(F, c.path) THEN Returned(F, "not_dir", <<>>)
    ELSE Returned(F, "ok", <<>>)

\* Path.glob(pattern) raises for an empty pattern (ValueError) and for an
\* absolute one (NotImplementedError)
GlobRaises(pattern) == pattern.abs \/ pattern.segs = <<>>

\* search_files(pattern); the files found are not modelled
search_files(F, base, pattern) ==
    IF base = NoTree THEN Returned(F, "unset", <<>>)
    ELSE IF GlobRaises(pattern) THEN Returned(F, "error", <<>>)
    ELSE Returned(F, "ok", <<>>)

\* grep_search(query, path, file_pattern); the matches are not modelled.
\* A file that cannot be decoded is skipped.
grep_search(F, base, path, file_pattern) ==
    IF base = NoTree THEN Returned(F, "unset", <<>>)
    ELSE LET c == check_path(F, base, path) IN
         IF ~c.ok THEN Returned(F, "outside", <<>>)
         ELSE IF is_file(F, c.path) THEN Returned(F, "ok", <<>>)
         ELSE IF GlobRaises(file_pattern) THEN Returned(F, "error", <<>>)
         ELSE Returned(F, "ok", <<>>)

\* Path(p).exists(): links are followed
exists(F, p) ==
    Resolved(F, p) # ELoop /\ Lookup(F, Resolved(F, p)).type # "none"

\* os.scandir(p): the names in the directory that p leads to
scandir(F, p) ==
    {q[Len(q)] : q \in {e \in DOMAIN F : e # <<>> /\ Parent(e) = Resolved(F, p)}}

\* pathlib's selectors, for patterns whose parts are names, "..", "*" and
\* "**". A path found is parent_path with names appended, ".." included:
\* nothing is resolved. "**" is every directory below, links left out
\* (entry.is_dir(follow_symlinks=False)).
RECURSIVE iterate_directories(_, _)
iterate_directories(F, parent_path) ==
    {parent_path}
      \cup UNION {iterate_directories(F, Append(parent_path, name)) :
                    name \in {n \in scandir(F, parent_path) :
                                Lookup(F, Append(Resolved(F, parent_path), n)).type
                                  = "dir"}}

\* "*" takes every name in the directory, a name takes the path if it
\* exists; before a further part only directories are kept
RECURSIVE select_from(_, _, _)
select_from(F, parent_path, pattern_parts) ==
    IF pattern_parts = <<>> THEN {parent_path}
    ELSE LET pat == Head(pattern_parts)
             child_parts == Tail(pattern_parts)
             dironly == child_parts # <<>>
             path == Append(parent_path, pat)
         IN  IF pat = "**"
             THEN UNION {select_from(F, d, child_parts) :
                           d \in iterate_directories(F, parent_path)}
             ELSE IF pat = "*"
             THEN UNION {select_from(F, Append(parent_path, name), child_parts) :
                           name \in {n \in scandir(F, parent_path) :
                                       dironly => is_dir(F, Append(parent_path, n))}}
             ELSE IF (IF dironly THEN is_dir(F, path) ELSE exists(F, path))
             THEN select_from(F, path, child_parts)
             ELSE {}

\* Path(p).glob(pattern), where it does not raise
glob(F, p, pattern) ==
    IF ~is_dir(F, p) THEN {} ELSE select_from(F, p, pattern.segs)

\* f.relative_to(_base_dir): the names of f after those of the directory
\* (every path that glob gives begins with the names of the directory)
relative_to(f, base) == SubSeq(f, Len(base) + 1, Len(f))

\* search_files(pattern): the paths in "files" of the result
file_paths(F, base, pattern) ==
    {relative_to(f, base) : f \in {g \in glob(F, base, pattern) : is_file(F, g)}}

\* grep_search: the files that are read, search_path being what _check_path
\* gave for path
files_to_search(F, search_path, file_pattern) ==
    IF is_file(F, search_path) THEN {search_path}
    ELSE {f \in glob(F, search_path, file_pattern) : is_file(F, f)}

\* "/.git/" in f"/{rel_path}" or rel_path.startswith(".git/")
InGit(rel_path) == \E i \in 1..(Len(rel_path) - 1) : rel_path[i] = ".git"

\* query in line
Contains(line, query) ==
    \E i \in 0..(Len(line) - Len(query)) :
        SubSeq(line, i + 1, i + Len(query)) = query

\* line.strip(): the blanks at both ends are removed
RECURSIVE strip(_)
strip(line) ==
    IF line = <<>> THEN line
    ELSE IF Head(line) = " " THEN strip(Tail(line))
    ELSE IF line[Len(line)] = " " THEN strip(SubSeq(line, 1, Len(line) - 1))
    ELSE line

\* max_matches = 100, and the [:200] of a match's content
max_matches == 100
MaxContent == 200

\* the matches of the lines numbered in kept, in the order of the lines
MatchesAt(rel_path, lines, kept) ==
    [k \in 1..Cardinality(kept) |->
       LET line_num == CHOOSE n \in kept :
                           Cardinality({m \in kept : m < n}) = k - 1
       IN  [file |-> rel_path, line |-> line_num,
            content |-> Slice(strip(lines[line_num]), 0, MaxContent)]]

\* the numbers of the lines that hold the query
Hits(lines, query) == {n \in 1..Len(lines) : Contains(lines[n], query)}

\* faulty variant: the loop over the lines has no break
grep_lines_NoBreak(rel_path, lines, query, matches) ==
    matches \o MatchesAt(rel_path, lines, Hits(lines, query))

\* the loop over the lines of one file: a line that holds the query is
\* appended to matches, and the loop ends when matches has max_matches
\* entries. So the lines appended are the first room hits, room being what
\* matches lacks to max_matches (one line, if it lacks nothing).
grep_lines(rel_path, lines, query, matches) ==
    LET room == IF Len(matches) < max_matches
                THEN max_matches - Len(matches)
                ELSE 1
        kept == {n \in Hits(lines, query) :
                   Cardinality({m \in Hits(lines, query) : m < n}) < room}
    IN  matches \o MatchesAt(rel_path, lines, kept)

\* the loop over the files, in the order that glob gave them: a file below
\* .git and a file that cannot be decoded are skipped
RECURSIVE grep_files(_, _, _, _, _)
grep_files(F, base, file_list, query, matches) ==
    IF file_list = <<>> \/ Len(matches) >= max_matches THEN matches
    ELSE LET file_path == Head(file_list)
             rel_path == relative_to(file_path, base)
         IN  IF InGit(rel_path) \/ ~Decodable(ReadText(F, file_path))
             THEN grep_files(F, base, Tail(file_list), query, matches)
             ELSE grep_files(F, base, Tail(file_list), query,
                             grep_lines(rel_path, split(ReadText(F, file_path)),
                                        query, matches))

\* the orders in which glob can give the files of a set
Orders(S) ==
    {o \in [1..Cardinality(S) -> S] :
       \A i, j \in 1..Cardinality(S) : o[i] = o[j] => i = j}

\* the tools, by what they do to the filesystem
ReadTools ==
    {"read_file", "read_file_chunk", "list_files", "search_files",
     "grep_search"}
WriteTools == {"save_file", "insert_lines", "replace_file_chunk", "delete_file"}

\* what comes after "Error" in the string that an `except Exception` clause
\* of the tool returns
Doing(tool) ==
    CASE tool = "read_file" -> "reading file:"
      [] tool = "read_file_chunk" -> "reading file chunk:"
      [] tool = "save_file" -> "saving file:"
      [] tool = "insert_lines" -> "inserting lines:"
      [] tool = "replace_file_chunk" -> "replacing file chunk:"
      [] tool = "delete_file" -> "deleting file:"
      [] tool = "list_files" -> "listing files:"
      [] tool = "search_files" -> "searching files:"
      [] tool = "grep_search" -> "searching:"

\* the string that the tool returns for a kind of result, as its first
\* word (up to the first blank) and what follows it
Message(tool, result) ==
    CASE result = "outside" -> <<"Error:", "Cannot ... outside repository">>
      [] result = "not_found" -> <<"Error:", "File not found:">>
      [] result = "range" -> <<"Error:", "line numbers">>
      [] result = "not_dir" -> <<"Error:", "Not a directory:">>
      [] result = "unset" -> <<"Error:", "Base directory not set">>
      [] result = "error" -> <<"Error", Doing(tool)>>
      [] result = "ok" /\ tool \in WriteTools -> <<"Successfully", "...">>
      [] result = "ok" /\ tool \in ReadTools -> <<"", "content or listing">>

\* ----------------------------------------- filesystems and arguments used
\* the repository is /w/r, with a file f of one line and a directory d;
\* what differs is x next to the repository and l inside it
CommonFs ==
    {<<<<"w">>, Dir>>, <<<<"w", "r">>, Dir>>, <<<<"w", "r", "d">>, Dir>>,
     <<<<"w", "r", "f">>, File(<<"a">>)>>}

\* x is a file, l is a link to it
PlainFs ==
    FsOf(CommonFs \cup {<<<<"w", "x">>, File(<<"a">>)>>,
                        <<<<"w", "r", "l">>, Link(Abs(<<"w", "x">>))>>})

\* x is a link into the repository, l is a link to itself
LinkedFs ==
    FsOf(CommonFs \cup {<<<<"w", "x">>, Link(Rel(<<"r", "d">>))>>,
                        <<<<"w", "r", "l">>, Link(Rel(<<"l">>))>>})

\* x is a directory with a file f, l is a link to the directory
SiblingFs ==
    FsOf(CommonFs \cup {<<<<"w", "x">>, Dir>>,
                        <<<<"w", "x", "f">>, File(<<"a">>)>>,
                        <<<<"w", "r", "l">>, Link(Rel(<<"..", "x">>))>>})

\* the filesystems and the directories given to create_file_tools
Setups ==
    {<<<<"w", "r">>, PlainFs>>, <<<<"w", "r">>, LinkedFs>>,
     <<<<"w", "r">>, SiblingFs>>, <<<<"w", "x">>, SiblingFs>>}

\* the repository's file f cannot be decoded
BinaryFs == Put(PlainFs, <<"w", "r", "f">>, File(<<BadByte>>))

\* the same, and create_file_tools not called yet, and a file that cannot
\* be decoded
ToolSetups == Setups \cup {<<NoTree, PlainFs>>, <<<<"w", "r">>, BinaryFs>>}

\* the pattern / file_pattern arguments of the calls
PatternArgs == {Rel(<<"**", "*">>), Rel(<<>>), Abs(<<"w", "*">>)}

\* the file_name arguments of the calls
PathArgs ==
    {Rel(<<"f">>), Rel(<<"d", "n">>), Rel(<<"n", "n">>), Rel(<<>>),
     Rel(<<"d", "..", "f">>), Rel(<<"..", "x">>),
     Rel(<<"l">>), Rel(<<"l", "f">>), Abs(<<"w", "x">>)}

\* the contents and line numbers of the calls
ContentArgs == {<<>>, <<"b", "\n">>}
LineArgs == (0 - 1)..MaxLine

NoCall == [tool |-> "none", file_name |-> Rel(<<>>), result |-> "none"]

\* the file that the calls of the line tools name, and its path
TheFile == Rel(<<"f">>)
ThePath == <<"w", "r", "f">>
\* a repository /w/r whose only file holds text
LineFs(text) ==
    FsOf({<<<<"w">>, Dir>>, <<<<"w", "r">>, Dir>>, <<ThePath, File(text)>>})
\* the texts of the file: up to MaxLine + 1 characters and so up to
\* MaxLine + 2 lines, with empty lines and with or without a last "\n"
Texts == UNION {[1..n -> {"a", "b", "\n"}] : n \in 0..(MaxLine + 1)}
\* the content / new_content arguments: nothing, one line, a line and "\n"
NewTexts == {<<>>, <<"X">>, <<"b", "\n">>}
\* the start_line / end_line and the after_line arguments: from below the
\* first valid number to beyond the last line of the longest text
LineNumbers == 0..(MaxLine + 2)
AfterLines == (0 - 1)..(MaxLine + 2)
\* no line tool called yet
NoIo == [args |-> <<>>, text |-> <<>>, old |-> <<>>]

\* no search tool called yet: no arguments, no files, no matches
NoFound == [args |-> <<>>, files |-> {}, matches |-> <<>>]

\* ------------------------------------------------ data of the search tools
\* n >= 1 lines of one text with "\n" between them, and a line of n letters
Lines(n, line) ==
    [i \in 1..(n * (Len(line) + 1) - 1) |->
       IF i % (Len(line) + 1) = 0 THEN "\n" ELSE line[i % (Len(line) + 1)]]
Letters(n) == [i \in 1..n |-> "q"]

\* the texts searched: one short of, exactly and one over max_matches
\* matching lines; a line one short of, exactly and one over MaxContent
\* letters; a long line between blanks; a long line and max_matches more
GrepTexts ==
    {Lines(n, <<"q">>) : n \in (max_matches - 1)..(max_matches + 1)}
      \cup {Letters(n) : n \in (MaxContent - 1)..(MaxContent + 1)}
      \cup {<<" ">> \o Letters(MaxContent + 1) \o <<" ">>,
            Letters(MaxContent + 1) \o <<"\n">> \o Lines(max_matches, <<"q">>)}

\* the repository has a directory .git with a file in it
GitFs ==
    Put(Put(PlainFs, <<"w", "r", ".git">>, Dir),
        <<"w", "r", ".git", "c">>, File(<<"a">>))

\* f and d/g hold more than half of max_matches matching lines each
TwoFs ==
    Put(Put(PlainFs, ThePath, File(Lines((max_matches \div 2) + 1, <<"q">>))),
        <<"w", "r", "d", "g">>, File(Lines((max_matches \div 2) + 1, <<"q">>)))

GrepSetups ==
    ToolSetups
      \cup {<<<<"w", "r">>, Put(PlainFs, ThePath, File(text))>> :
              text \in GrepTexts}
      \cup {<<<<"w", "r">>, GitFs>>, <<<<"w", "r">>, TwoFs>>}
      \cup {<<<<"w", "r">>, LineFs(text)>> : text \in Texts}

\* the pattern / file_pattern, the path and the query arguments
GlobArgs ==
    PatternArgs
      \cup {Rel(<<"*">>), Rel(<<"**">>), Rel(<<"l">>), Rel(<<"d", "*">>),
            Rel(<<"..", "x">>), Rel(<<"..", "*">>), Rel(<<"d", "..", "f">>)}
GrepPaths == {Rel(<<>>), Rel(<<"d">>), Rel(<<"f">>), Rel(<<"..">>)}
QueryArgs == {<<"q">>, <<"a">>, <<>>}

\* what the X-Hub-Signature-256 header of a request can be
SigClasses ==
    {"valid", "missing", "no_equals", "wrong_algo", "mismatch", "non_ascii"}

\* responses of POST /webhook
RespNone == [status |-> "none", ok |-> FALSE, message |-> ""]
RespPong == [status |-> "200", ok |-> TRUE, message |-> "pong"]
RespIssue ==
    [status |-> "200", ok |-> TRUE, message |-> "Processing issue in background"]
RespNoIssueUrl ==
    [status |-> "200", ok |-> FALSE, message |-> "No issue URL in payload"]
RespFixPR ==
    [status |-> "200", ok |-> TRUE, message |-> "Processing PR fix in background"]
RespNoPrUrl ==
    [status |-> "200", ok |-> FALSE, message |-> "No PR URL in payload"]
RespNoPRs ==
    [status |-> "200", ok |-> TRUE, message |-> "No PRs in check_suite"]
RespReview ==
    [status |-> "200", ok |-> TRUE, message |-> "Processing review in background"]
RespIgnored == [status |-> "200", ok |-> TRUE, message |-> "ignored"]
RespMissing ==
    [status |-> "400", ok |-> FALSE, message |-> "Missing X-Hub-Signature-256"]
RespBadFormat ==
    [status |-> "400", ok |-> FALSE, message |-> "Bad X-Hub-Signature-256 format"]
RespBadAlgo ==
    [status |-> "400", ok |-> FALSE, message |-> "Unsupported signature algorithm"]
RespInvalid == [status |-> "401", ok |-> FALSE, message |-> "Invalid signature"]
RespError == [status |-> "500", ok |-> FALSE, message |-> "Internal Server Error"]

VARIABLES
    store,       \* committed rows of table pr_fix_attempts, by pr_key
    writer,      \* set holding the task whose connection has the write lock
    pending,     \* row staged by the writer's open transaction
    pc,          \* position of each task
    kind,        \* which function the task runs
    url,         \* pr_url argument of the task
    key,         \* pr_key derived by parse_pr_url / make_pr_key
    attempts,    \* local variable `attempts` of process_pr_review_submitted
    ret,         \* value returned by increment_fix_attempts to a direct caller
    approved,    \* local variable `approved` of process_check_suite_completed
    fixLog,      \* per key: attempt numbers with which handle_fixpr started
    incCount,    \* per key: number of committed increment upserts
    nTrig,       \* per key: number of operations started for the key
    ci,          \* per key: workflow runs of the PR's head commit (GitHub)
    hpc,         \* github_webhook: where the handler of the request is
    sig,         \* the request's X-Hub-Signature-256 header, by class
    payload,     \* the request's body as parsed by request.json()
    resp,        \* the response to the last request
    sigHeader,   \* verify_github_signature: argument sig_header
    sigBody,     \* verify_github_signature: argument body
    sigResult,   \* verify_github_signature: how the call ended
    caught,      \* per worker: an except clause of a task on it has run
    base_dir,    \* file_tools._base_dir, the module's global
    apc,         \* per worker: where the agent run on it is
    used,        \* per worker: the tree its run's last tool call resolved in
    files,       \* per tree: the workers whose runs wrote into the tree
    fs,          \* the filesystem: what every existing path holds
    call,        \* the last call of a file tool and the kind of its result
    nCalls,      \* number of calls of file tools so far
    io,          \* line tools: arguments and text of the last call
    found,       \* search tools: what the last call reported
    gpc,             \* get_unique_branch_name: where the call is
    remote_branches, \* the names of the refs of the remote
    base_name,       \* the name asked for
    attempt,         \* the number tried in the loop
    branch_name      \* the name returned

serverVars == <<store, writer, pending, pc, kind, url, key, attempts, ret,
                approved, fixLog, incCount, nTrig>>

\* state outside the server's tasks and store
hookVars == <<hpc, sig, payload, resp>>
sigVars == <<sigHeader, sigBody, sigResult>>
failVars == <<caught>>
agentVars == <<base_dir, apc, used, files>>
fsVars == <<fs, call, nCalls, io, found>>
gitVars == <<gpc, remote_branches, base_name, attempt, branch_name>>
envVars == <<ci, hookVars, sigVars, failVars, agentVars, fsVars, gitVars>>
\* the state that the file tools do not touch
nonFsEnv == <<ci, hookVars, sigVars, failVars, agentVars, gitVars>>
\* the state that github_webhook does not touch
nonHookEnv == <<ci, sigVars, failVars, agentVars, fsVars, gitVars>>
\* the state that is neither the server's nor GitHub's list of runs
nonCiEnv == <<hookVars, sigVars, failVars, agentVars, fsVars, gitVars>>
\* the state that a call of verify_github_signature does not touch
nonSigEnv == <<ci, hookVars, failVars, agentVars, fsVars, gitVars>>
\* the state outside the server that a failing task does not touch
nonFailEnv == <<ci, hookVars, sigVars, agentVars, fsVars, gitVars>>
\* the state that the agent runs do not touch
nonAgentEnv == <<ci, hookVars, sigVars, failVars, fsVars, gitVars>>
\* the state that get_unique_branch_name does not touch
nonGitEnv == <<ci, hookVars, sigVars, failVars, agentVars, fsVars>>

vars == <<serverVars, envVars>>

taskVars == <<pc, kind, url, key, attempts, ret, approved>>
histVars == <<fixLog, incCount>>

\* ------------------------------------------------------------ the table
\* no row for the key
Absent == [present |-> FALSE, attempts |-> 0, completed |-> FALSE]

\* faulty variant: a key without a row counts as out of attempts
get_fix_attempts_Missing(r) == IF r.present THEN r.attempts ELSE MAX_RETRIES

\* SELECT attempts ...; row[0] if row else 0
get_fix_attempts(r) == IF r.present THEN r.attempts ELSE 0

\* SELECT completed ...; bool(row and row[0])
is_pr_completed(r) == r.present /\ r.completed

\* faulty variant: INSERT OR REPLACE, the other columns fall back to defaults
IncrementUpsert_Replace(r) ==
    [present |-> TRUE,
     attempts |-> IF r.present THEN r.attempts + 1 ELSE 1,
     completed |-> FALSE]

\* faulty variant: ON CONFLICT DO NOTHING, an existing row is not counted up
IncrementUpsert_Ignore(r) ==
    IF r.present
    THEN r
    ELSE [present |-> TRUE, attempts |-> 1, completed |-> FALSE]

\* INSERT (pr_key, attempts) VALUES (?, 1)
\* ON CONFLICT(pr_key) DO UPDATE SET attempts = attempts + 1
IncrementUpsert(r) ==
    IF r.present
    THEN [r EXCEPT !.attempts = @ + 1]
    ELSE [present |-> TRUE, attempts |-> 1, completed |-> FALSE]

\* faulty variant: INSERT OR REPLACE, attempts falls back to DEFAULT 0
MarkUpsert_Replace(r) ==
    [present |-> TRUE, attempts |-> 0, completed |-> TRUE]

\* INSERT (pr_key, completed) VALUES (?, 1)
\* ON CONFLICT(pr_key) DO UPDATE SET completed = 1
MarkUpsert(r) ==
    IF r.present
    THEN [r EXCEPT !.completed = TRUE]
    ELSE [present |-> TRUE, attempts |-> 0, completed |-> TRUE]

\* faulty variant: off by one, attempts > MAX_RETRIES
RetryLimitReached_Strict(a) == a > MAX_RETRIES

\* if attempts >= MAX_RETRIES
RetryLimitReached(a) == a >= MAX_RETRIES

\* faulty variant: only the status of the last listed run decides
are_all_workflows_completed_Last(runs) ==
    runs = <<>> \/ runs[Len(runs)] = "completed"

\* for run in runs: if run.status != "completed": return False; return True
are_all_workflows_completed(runs) ==
    \A i \in 1..Len(runs) : runs[i] = "completed"

\* ----------------------------------------------------------------- Init
\* the table is empty, no task runs
ServerInit ==
    /\ store = [k \in Keys |-> Absent]
    /\ writer = {}
    /\ pending = Absent
    /\ pc = [t \in Tasks |-> "idle"]
    /\ kind = [t \in Tasks |-> "none"]
    /\ url = [t \in Tasks |-> BadUrl]
    /\ key = [t \in Tasks |-> BadUrl]
    /\ attempts = [t \in Tasks |-> 0]
    /\ ret = [t \in Tasks |-> 0]
    /\ approved = [t \in Tasks |-> FALSE]
    /\ fixLog = [k \in Keys |-> <<>>]
    /\ incCount = [k \in Keys |-> 0]
    /\ nTrig = [k \in Keys |-> 0]

\* no request has arrived, no workflow run is known
EnvInit ==
    /\ apc = [t \in Tasks |-> "idle"]
    /\ used = [t \in Tasks |-> NoTree]
    /\ files = [d \in Trees |-> {}]
    /\ caught = [t \in Tasks |-> FALSE]
    /\ ci = [k \in Keys |-> <<>>]
    /\ hpc = "idle"
    /\ sig = "missing"
    /\ payload = NoPayload
    /\ resp = RespNone
    /\ gpc = "idle"
    /\ remote_branches = {}
    /\ base_name = <<>>
    /\ attempt = 0
    /\ branch_name = <<>>

\* the arguments of a call of verify_github_signature
SigInit(b, h) ==
    /\ sigBody = b
    /\ sigHeader = h
    /\ sigResult = [done |-> FALSE, out |-> RespNone]

\* create_file_tools has been called with root (NoTree: not yet), the
\* filesystem is F
ToolsInit(root, F) ==
    /\ base_dir = root
    /\ fs = F
    /\ call = NoCall
    /\ nCalls = 0
    /\ io = NoIo
    /\ found = NoFound

Init ==
    /\ ServerInit
    /\ EnvInit
    /\ SigInit("{}", <<>>)
    /\ ToolsInit(NoTree, PlainFs)

\* the task function returns (normally or through its except clause)
Finish(t) ==
    /\ pc' = [pc EXCEPT ![t] = "idle"]
    /\ kind' = [kind EXCEPT ![t] = "none"]
    /\ url' = [url EXCEPT ![t] = BadUrl]
    /\ key' = [key EXCEPT ![t] = BadUrl]
    /\ attempts' = [attempts EXCEPT ![t] = 0]
    /\ ret' = [ret EXCEPT ![t] = 0]
    /\ approved' = [approved EXCEPT ![t] = FALSE]

Goto(t, label) ==
    /\ pc' = [pc EXCEPT ![t] = label]
    /\ UNCHANGED <<kind, url, key, attempts, ret, approved>>

\* an exception is raised inside the try block of the task function:
\* control passes to its "except Exception" clause, the locals are dropped
Raise(t) ==
    /\ pc' = [pc EXCEPT ![t] = "except"]
    /\ kind' = [kind EXCEPT ![t] = "none"]
    /\ url' = [url EXCEPT ![t] = BadUrl]
    /\ key' = [key EXCEPT ![t] = BadUrl]
    /\ attempts' = [attempts EXCEPT ![t] = 0]
    /\ ret' = [ret EXCEPT ![t] = 0]
    /\ approved' = [approved EXCEPT ![t] = FALSE]

RECURSIVE SumOver(_, _)
SumOver(f, S) ==
    IF S = {} THEN 0
    ELSE LET x == CHOOSE y \in S : TRUE IN f[x] + SumOver(f, S \ {x})

TotalTriggers == SumOver(nTrig, Keys)

CountTrigger(u) ==
    IF u \in Keys
    THEN nTrig' = [nTrig EXCEPT ![u] = @ + 1]
    ELSE UNCHANGED nTrig

\* the pool gives a new task to its first free worker
FreeWorker(t) ==
    /\ pc[t] = "idle"
    /\ \A o \in Tasks : o < t => pc[o] # "idle"

\* ------------------------------------------------------- github_webhook
\* background_tasks.add_task(f, u): worker t starts running f(u)
AddTask(t, f, u) ==
    /\ FreeWorker(t)
    /\ CountTrigger(u)
    /\ pc' = [pc EXCEPT ![t] = IF f = "issue" THEN "handle_fixissue" ELSE "parse"]
    /\ kind' = [kind EXCEPT ![t] = f]
    /\ url' = [url EXCEPT ![t] = u]
    /\ UNCHANGED <<key, attempts, ret, approved, store, writer, pending, histVars>>

\* issues / opened: add_task(process_issue_opened)
ScheduleFixIssue(t) ==
    /\ AddTask(t, "issue", BadUrl)
    /\ UNCHANGED envVars

\* pull_request_review / submitted: add_task(process_pr_review_submitted)
ScheduleFixPR(t, u) ==
    /\ AddTask(t, "fixpr", u)
    /\ UNCHANGED envVars

\* check_suite / completed: add_task(process_check_suite_completed)
ScheduleReview(t, u) ==
    /\ AddTask(t, "review", u)
    /\ UNCHANGED envVars

\* hmac.new(WEBHOOK_SECRET, msg=body, digestmod=sha256).hexdigest(), cut to
\* two hex digits
hexdigest(b) == IF b = "{}" THEN <<"a", "3">> ELSE <<"3", "a">>

\* position of the first "=" of the header, 0 if it has none
FirstEq(h) ==
    IF \E i \in 1..Len(h) : h[i] = "="
    THEN CHOOSE i \in 1..Len(h) :
            h[i] = "=" /\ \A j \in 1..(i - 1) : h[j] # "="
    ELSE 0

\* verify_github_signature(body, sig_header): the response the request gets
\* when the call raises, RespNone when it returns. hmac.compare_digest
\* raises TypeError for a str with a character outside ASCII; nothing
\* catches it and the request is answered 500.
verify_github_signature(b, h) ==
    IF h = <<>> THEN RespMissing
    ELSE IF FirstEq(h) = 0 THEN RespBadFormat
    ELSE LET algo == SubSeq(h, 1, FirstEq(h) - 1)
             their_sig == SubSeq(h, FirstEq(h) + 1, Len(h))
         IN  IF algo # <<"sha256">> THEN RespBadAlgo
             ELSE IF \E i \in 1..Len(their_sig) : their_sig[i] \in NonAscii
             THEN RespError
             ELSE IF their_sig # hexdigest(b) THEN RespInvalid
             ELSE RespNone

\* a header of each class, for the body "{}"
SampleHeader(c) ==
    CASE c = "missing" -> <<>>
      [] c = "no_equals" -> <<"sha256", "a", "3">>
      [] c = "wrong_algo" -> <<"sha1", "=", "a", "3">>
      [] c = "mismatch" -> <<"sha256", "=", "3", "3">>
      [] c = "non_ascii" -> <<"sha256", "=", "a", "U+00E9">>
      [] OTHER -> <<"sha256", "=">> \o hexdigest("{}")

\* verify_github_signature for a request whose header is of class c
SignatureResponse(c) == verify_github_signature("{}", SampleHeader(c))

\* a POST /webhook arrives; body = await request.body()
Receive(c) ==
    /\ hpc = "idle"
    /\ hpc' = "verify"
    /\ sig' = c
    /\ payload' = NoPayload
    /\ resp' = RespNone
    /\ UNCHANGED <<serverVars, nonHookEnv>>

\* the handler returns r or raises the HTTPException r
Reply(r) ==
    /\ hpc' = "idle"
    /\ resp' = r
    /\ UNCHANGED <<sig, nonHookEnv>>

\* faulty variant: the signature is not checked before the body is parsed
VerifySignature_Late ==
    /\ hpc = "verify"
    /\ hpc' = "json"
    /\ UNCHANGED <<sig, payload, resp, nonHookEnv, serverVars>>

\* verify_github_signature(body, request.headers.get("X-Hub-Signature-256"))
VerifySignature ==
    /\ hpc = "verify"
    /\ IF SignatureResponse(sig) = RespNone
       THEN hpc' = "json" /\ UNCHANGED <<sig, resp, nonHookEnv>>
       ELSE Reply(SignatureResponse(sig))
    /\ UNCHANGED <<payload, serverVars>>

\* payload = await request.json(); a body that is no JSON raises
\* (ps: the payloads that can arrive)
ParseJson(ps) ==
    /\ hpc = "json"
    /\ \/ \E p \in ps :
             /\ payload' = p
             /\ hpc' = "route"
             /\ UNCHANGED <<sig, resp, nonHookEnv>>
       \/ Reply(RespError) /\ UNCHANGED payload
    /\ UNCHANGED serverVars

\* background_tasks.add_task(f, u); return r
Schedule(f, u, r) ==
    /\ \E t \in Tasks : AddTask(t, f, u)
    /\ Reply(r)

\* return r
Ignore(r) ==
    /\ Reply(r)
    /\ UNCHANGED serverVars

\* faulty variant: the action of an issues event is not looked at
Route_AnyIssueAction ==
    /\ hpc = "route"
    /\ IF payload.event = "ping" THEN Ignore(RespPong)
       ELSE IF payload.event = "issues"
       THEN IF payload.issue_url # NoUrl
            THEN Schedule("issue", payload.issue_url, RespIssue)
            ELSE Ignore(RespNoIssueUrl)
       ELSE IF payload.event = "pull_request_review"
               /\ payload.action = "submitted"
       THEN IF payload.pr_url # NoUrl
            THEN Schedule("fixpr", payload.pr_url, RespFixPR)
            ELSE Ignore(RespNoPrUrl)
       ELSE IF payload.event = "check_suite" /\ payload.action = "completed"
       THEN IF payload.prs = <<>>
            THEN Ignore(RespNoPRs)
            ELSE Schedule("review", payload.prs[1], RespReview)
       ELSE Ignore(RespIgnored)
    /\ UNCHANGED payload

\* faulty variant: the review is scheduled for the last listed pull request
Route_LastPR ==
    /\ hpc = "route"
    /\ IF payload.event = "ping" THEN Ignore(RespPong)
       ELSE IF payload.event = "issues" /\ payload.action = "opened"
       THEN IF payload.issue_url # NoUrl
            THEN Schedule("issue", payload.issue_url, RespIssue)
            ELSE Ignore(RespNoIssueUrl)
       ELSE IF payload.event = "pull_request_review"
               /\ payload.action = "submitted"
       THEN IF payload.pr_url # NoUrl
            THEN Schedule("fixpr", payload.pr_url, RespFixPR)
            ELSE Ignore(RespNoPrUrl)
       ELSE IF payload.event = "check_suite" /\ payload.action = "completed"
       THEN IF payload.prs = <<>>
            THEN Ignore(RespNoPRs)
            ELSE Schedule("review", payload.prs[Len(payload.prs)], RespReview)
       ELSE Ignore(RespIgnored)
    /\ UNCHANGED payload

\* the if-chain of github_webhook on (event, action)
Route ==
    /\ hpc = "route"
    /\ IF payload.event = "ping" THEN Ignore(RespPong)
       ELSE IF payload.event = "issues" /\ payload.action = "opened"
       THEN IF payload.issue_url # NoUrl
            THEN Schedule("issue", payload.issue_url, RespIssue)
            ELSE Ignore(RespNoIssueUrl)
       ELSE IF payload.event = "pull_request_review"
               /\ payload.action = "submitted"
       THEN IF payload.pr_url # NoUrl
            THEN Schedule("fixpr", payload.pr_url, RespFixPR)
            ELSE Ignore(RespNoPrUrl)
       ELSE IF payload.event = "check_suite" /\ payload.action = "completed"
       THEN IF payload.prs = <<>>
            THEN Ignore(RespNoPRs)
            ELSE Schedule("review", payload.prs[1], RespReview)
       ELSE Ignore(RespIgnored)
    /\ UNCHANGED payload

\* handle_fixissue(issue_url): returns or raises, the exception is caught
HandleFixissue(t) ==
    /\ pc[t] = "handle_fixissue"
    /\ Finish(t)
    /\ UNCHANGED <<store, writer, pending, histVars, nTrig>>
    /\ UNCHANGED envVars

\* a call verify_github_signature(sigBody, sigHeader) returns or raises
SigCall ==
    /\ ~sigResult.done
    /\ sigResult' =
          [done |-> TRUE, out |-> verify_github_signature(sigBody, sigHeader)]
    /\ UNCHANGED <<sigBody, sigHeader, serverVars, nonSigEnv>>

\* ----------------------------------------------------------- agent runs
\* run_code_agent_fixissue / run_code_agent_fixpr(..., repo_path) starts
\* on worker t, in a thread of the pool
AgentStart(t) ==
    /\ apc[t] = "idle"
    /\ apc' = [apc EXCEPT ![t] = "create_file_tools"]
    /\ used' = [used EXCEPT ![t] = NoTree]
    /\ UNCHANGED <<base_dir, files, serverVars, nonAgentEnv>>

\* tools = create_file_tools(repo_path): global _base_dir; _base_dir = ...
CreateFileTools(t) ==
    /\ apc[t] = "create_file_tools"
    /\ base_dir' = RepoPath(t)
    /\ apc' = [apc EXCEPT ![t] = "invoke"]
    /\ UNCHANGED <<used, files, serverVars, nonAgentEnv>>

\* agent.invoke: the model calls save_file; _check_path reads the global
\* _base_dir and the file is written below the directory found there
ToolCall(t) ==
    /\ apc[t] = "invoke"
    /\ used' = [used EXCEPT ![t] = base_dir]
    /\ files' = [files EXCEPT ![base_dir] = @ \cup {t}]
    /\ UNCHANGED <<base_dir, apc, serverVars, nonAgentEnv>>

\* agent.invoke returns, the run ends
AgentReturn(t) ==
    /\ apc[t] = "invoke"
    /\ apc' = [apc EXCEPT ![t] = "idle"]
    /\ UNCHANGED <<base_dir, used, files, serverVars, nonAgentEnv>>

\* ----------------------------------------------------------- file tools
\* the agent calls a tool; o is what the tool gives for the arguments
ToolReturns(name, file_name, o) ==
    /\ nCalls < MaxCalls
    /\ \A p \in DOMAIN o.fs : Len(o.fs[p].data) <= MaxLen
    /\ fs' = o.fs
    /\ call' = [tool |-> name, file_name |-> file_name, result |-> o.result]
    /\ nCalls' = nCalls + 1
    /\ UNCHANGED <<io, found, serverVars, nonFsEnv>>

SaveFile(a, data) ==
    ToolReturns("save_file", a, save_file(fs, base_dir, a, data))

InsertLines(a, n, data) ==
    ToolReturns("insert_lines", a,
                insert_lines(fs, base_dir, a, n, data))

ReplaceFileChunk(a, m, n, data) ==
    ToolReturns("replace_file_chunk", a,
                replace_file_chunk(fs, base_dir, a, m, n, data))

DeleteFile(a) ==
    ToolReturns("delete_file", a, delete_file(fs, base_dir, a))

ReadFile(a) == ToolReturns("read_file", a, read_file(fs, base_dir, a))

ReadFileChunk(a, m, n) ==
    ToolReturns("read_file_chunk", a, read_file_chunk(fs, base_dir, a, m, n))

ListFiles(a) == ToolReturns("list_files", a, list_files(fs, base_dir, a))

SearchFiles(pattern) ==
    ToolReturns("search_files", pattern, search_files(fs, base_dir, pattern))

GrepSearch(a, pattern) ==
    ToolReturns("grep_search", a, grep_search(fs, base_dir, a, pattern))

\* ----------------------------------------------------------- line tools
\* the agent calls a line tool on the file; args are the line numbers and
\* the text given, o is what the tool gives for them. Kept with the call
\* are its arguments, the text returned and what the file held before.
LineCall(name, args, o, text) ==
    /\ fs' = o.fs
    /\ call' = [tool |-> name, file_name |-> TheFile, result |-> o.result]
    /\ nCalls' = nCalls + 1
    /\ io' = [args |-> args, text |-> text, old |-> ReadText(fs, ThePath)]
    /\ UNCHANGED <<found, serverVars, nonFsEnv>>

\* one change of the file, as the first call
InsertLinesAt(n, data) ==
    /\ call = NoCall
    /\ LineCall("insert_lines", <<n, data>>,
                insert_lines(fs, base_dir, TheFile, n, data), <<>>)

ReplaceFileChunkAt(m, n, data) ==
    /\ call = NoCall
    /\ LineCall("replace_file_chunk", <<m, n, data>>,
                replace_file_chunk(fs, base_dir, TheFile, m, n, data), <<>>)

\* a read, as the first call or of what a change left
ReadFileChunkAt(m, n) ==
    /\ call.tool # "read_file_chunk"
    /\ LineCall("read_file_chunk", <<m, n>>,
                read_file_chunk(fs, base_dir, TheFile, m, n),
                read_file_chunk(fs, base_dir, TheFile, m, n).text)

\* --------------------------------------------------------- search tools
\* the agent calls search_files as the first call; kept with the call are
\* the pattern and the paths in the result
SearchFilesFor(pattern) ==
    /\ call = NoCall
    /\ fs' = search_files(fs, base_dir, pattern).fs
    /\ call' = [tool |-> "search_files", file_name |-> pattern,
                result |-> search_files(fs, base_dir, pattern).result]
    /\ nCalls' = nCalls + 1
    /\ found' = [args |-> <<pattern>>,
                 files |-> IF search_files(fs, base_dir, pattern).result = "ok"
                           THEN file_paths(fs, base_dir, pattern)
                           ELSE {},
                 matches |-> <<>>]
    /\ UNCHANGED <<io, serverVars, nonFsEnv>>

\* the agent calls grep_search as the first call; glob gives the files in
\* some order. Kept with the call are the arguments, the files to search
\* and the matches in the result
GrepSearchFor(query, a, pattern) ==
    /\ call = NoCall
    /\ fs' = grep_search(fs, base_dir, a, pattern).fs
    /\ call' = [tool |-> "grep_search", file_name |-> a,
                result |-> grep_search(fs, base_dir, a, pattern).result]
    /\ nCalls' = nCalls + 1
    /\ \E order \in
            IF grep_search(fs, base_dir, a, pattern).result = "ok"
            THEN Orders(files_to_search(fs, check_path(fs, base_dir, a).path,
                                        pattern))
            ELSE {<<>>} :
          found' = [args |-> <<query, a, pattern>>,
                    files |-> {relative_to(order[i], base_dir) :
                                 i \in DOMAIN order},
                    matches |-> grep_files(fs, base_dir, order, query, <<>>)]
    /\ UNCHANGED <<io, serverVars, nonFsEnv>>

\* ---------------------------------------------------------- branch names
\* get_unique_branch_name(local_repo, base_name) is called; refs are the
\* names of the refs of the remote at that time
GetUniqueBranchName(refs, name) ==
    /\ gpc = "idle"
    /\ gpc' = "check"
    /\ remote_branches' = refs
    /\ base_name' = name
    /\ UNCHANGED <<attempt, branch_name>>
    /\ UNCHANGED <<serverVars, nonGitEnv>>

\* if f"origin/{base_name}" not in remote_branches: return base_name
\* attempt = 1
CheckBaseName ==
    /\ gpc = "check"
    /\ IF ~Taken(remote_branches, base_name)
       THEN /\ gpc' = "done"
            /\ branch_name' = base_name
            /\ UNCHANGED attempt
       ELSE /\ gpc' = "loop"
            /\ attempt' = 1
            /\ UNCHANGED branch_name
    /\ UNCHANGED <<remote_branches, base_name>>
    /\ UNCHANGED <<serverVars, nonGitEnv>>

\* one turn of the while loop: the candidate is returned if it is free,
\* or else attempt += 1
TryCandidate ==
    /\ gpc = "loop"
    /\ IF ~Taken(remote_branches, Candidate(base_name, attempt))
       THEN /\ gpc' = "done"
            /\ branch_name' = Candidate(base_name, attempt)
            /\ UNCHANGED attempt
       ELSE /\ attempt' = attempt + 1
            /\ UNCHANGED <<gpc, branch_name>>
    /\ UNCHANGED <<remote_branches, base_name>>
    /\ UNCHANGED <<serverVars, nonGitEnv>>

\* ------------------------------------------------- steps of the tasks
\* owner, repo, pr_number = parse_pr_url(pr_url); ValueError is caught
ParsePrUrl(t) ==
    /\ pc[t] = "parse"
    /\ IF url[t] \in Keys
       THEN /\ pc' = [pc EXCEPT ![t] = "is_completed"]
            /\ key' = [key EXCEPT ![t] = url[t]]
            /\ UNCHANGED <<kind, url, attempts, ret, approved>>
       ELSE Finish(t)
    /\ UNCHANGED <<store, writer, pending, histVars, nTrig>>
    /\ UNCHANGED envVars

\* faulty variant: the completed check is left out
IsPrCompleted_NoCheck(t) ==
    /\ pc[t] = "is_completed"
    /\ IF kind[t] = "fixpr"
       THEN Goto(t, "get_attempts")
       ELSE Goto(t, "github")
    /\ UNCHANGED <<store, writer, pending, histVars, nTrig>>
    /\ UNCHANGED envVars

\* if is_pr_completed(owner, repo, pr_number): return
IsPrCompleted(t) ==
    /\ pc[t] = "is_completed"
    /\ IF is_pr_completed(store[key[t]])
       THEN Finish(t)
       ELSE IF kind[t] = "fixpr"
            THEN Goto(t, "get_attempts")
            ELSE Goto(t, "github")
    /\ UNCHANGED <<store, writer, pending, histVars, nTrig>>
    /\ UNCHANGED envVars

\* attempts = get_fix_attempts(...); if attempts >= MAX_RETRIES: mark
GetFixAttempts(t) ==
    /\ pc[t] = "get_attempts"
    /\ LET a == get_fix_attempts(store[key[t]]) IN
       /\ attempts' = [attempts EXCEPT ![t] = a]
       /\ pc' = [pc EXCEPT ![t] =
                   IF RetryLimitReached(a) THEN "mark_exec" ELSE "inc_exec"]
    /\ UNCHANGED <<kind, url, key, ret, approved>>
    /\ UNCHANGED <<store, writer, pending, histVars, nTrig>>
    /\ UNCHANGED envVars

\* increment_fix_attempts: conn.execute(INSERT ... ON CONFLICT ...)
IncExec(t) ==
    /\ pc[t] = "inc_exec"
    /\ writer = {}
    /\ writer' = {t}
    /\ pending' = IncrementUpsert(store[key[t]])
    /\ Goto(t, "inc_commit")
    /\ UNCHANGED <<store, histVars, nTrig>>
    /\ UNCHANGED envVars

\* faulty variant: the update has no WHERE clause, every row of the table
\* is counted up
IncCommit_AllRows(t) ==
    /\ pc[t] = "inc_commit"
    /\ writer = {t}
    /\ store' = [k \in Keys |->
                   IF k = key[t] THEN pending
                   ELSE IF store[k].present
                   THEN [store[k] EXCEPT !.attempts = @ + 1]
                   ELSE store[k]]
    /\ writer' = {}
    /\ pending' = Absent
    /\ incCount' = [incCount EXCEPT ![key[t]] = @ + 1]
    /\ Goto(t, "inc_select")
    /\ UNCHANGED <<fixLog, nTrig>>
    /\ UNCHANGED envVars

\* increment_fix_attempts: conn.commit()
IncCommit(t) ==
    /\ pc[t] = "inc_commit"
    /\ writer = {t}
    /\ store' = [store EXCEPT ![key[t]] = pending]
    /\ writer' = {}
    /\ pending' = Absent
    /\ incCount' = [incCount EXCEPT ![key[t]] = @ + 1]
    /\ Goto(t, "inc_select")
    /\ UNCHANGED <<fixLog, nTrig>>
    /\ UNCHANGED envVars

\* increment_fix_attempts: SELECT attempts ...; return int(result[0])
\* (process_pr_review_submitted discards the returned value)
IncSelect(t) ==
    /\ pc[t] = "inc_select"
    /\ IF kind[t] = "fixpr"
       THEN Goto(t, "handle_fixpr")
       ELSE /\ pc' = [pc EXCEPT ![t] = "inc_return"]
            /\ ret' = [ret EXCEPT ![t] = store[key[t]].attempts]
            /\ UNCHANGED <<kind, url, key, attempts, approved>>
    /\ UNCHANGED <<store, writer, pending, histVars, nTrig>>
    /\ UNCHANGED envVars

\* the direct caller receives the returned count
IncReturn(t) ==
    /\ pc[t] = "inc_return"
    /\ Finish(t)
    /\ UNCHANGED <<store, writer, pending, histVars, nTrig>>
    /\ UNCHANGED envVars

\* mark_pr_completed: conn.execute(INSERT ... ON CONFLICT ...)
MarkExec(t) ==
    /\ pc[t] = "mark_exec"
    /\ writer = {}
    /\ writer' = {t}
    /\ pending' = MarkUpsert(store[key[t]])
    /\ Goto(t, "mark_commit")
    /\ UNCHANGED <<store, histVars, nTrig>>
    /\ UNCHANGED envVars

\* mark_pr_completed: conn.commit(); the task function then returns
MarkCommit(t) ==
    /\ pc[t] = "mark_commit"
    /\ writer = {t}
    /\ store' = [store EXCEPT ![key[t]] = pending]
    /\ writer' = {}
    /\ pending' = Absent
    /\ Finish(t)
    /\ UNCHANGED <<histVars, nTrig>>
    /\ UNCHANGED envVars

\* handle_fixpr(pr_url): returns or raises, the exception is caught
HandleFixpr(t) ==
    /\ pc[t] = "handle_fixpr"
    /\ fixLog' = [fixLog EXCEPT ![key[t]] = Append(@, attempts[t] + 1)]
    /\ Finish(t)
    /\ UNCHANGED <<store, writer, pending, incCount, nTrig>>
    /\ UNCHANGED envVars

\* setup_github_access / get_pull_request: return or raise
GithubAccess(t) ==
    /\ pc[t] = "github"
    /\ \E ok \in BOOLEAN :
          IF ok THEN Goto(t, "workflows") ELSE Finish(t)
    /\ UNCHANGED <<store, writer, pending, histVars, nTrig>>
    /\ UNCHANGED envVars

\* if not are_all_workflows_completed(gh_repo, head.sha): return
\* (rs: the runs GitHub lists for the head commit at the time of the call)
Workflows(t, rs) ==
    /\ pc[t] = "workflows"
    /\ IF are_all_workflows_completed(rs)
       THEN Goto(t, "handle_review")
       ELSE Finish(t)
    /\ UNCHANGED <<store, writer, pending, histVars, nTrig>>
    /\ UNCHANGED envVars

\* faulty variant: the PR is marked completed whatever the review says
HandleReview_AlwaysMark(t) ==
    /\ pc[t] = "handle_review"
    /\ \E outcome \in {"approved", "changes", "raised"} :
          IF outcome # "raised"
          THEN /\ pc' = [pc EXCEPT ![t] = "mark_exec"]
               /\ approved' = [approved EXCEPT ![t] = (outcome = "approved")]
               /\ UNCHANGED <<kind, url, key, attempts, ret>>
          ELSE Finish(t)
    /\ UNCHANGED <<store, writer, pending, histVars, nTrig>>
    /\ UNCHANGED envVars

\* approved = handle_review(pr_url); if approved: mark_pr_completed(...)
HandleReview(t) ==
    /\ pc[t] = "handle_review"
    /\ \E outcome \in {"approved", "changes", "raised"} :
          IF outcome = "approved"
          THEN /\ pc' = [pc EXCEPT ![t] = "mark_exec"]
               /\ approved' = [approved EXCEPT ![t] = TRUE]
               /\ UNCHANGED <<kind, url, key, attempts, ret>>
          ELSE Finish(t)
    /\ UNCHANGED <<store, writer, pending, histVars, nTrig>>
    /\ UNCHANGED envVars

\* GitHub: a workflow run of the head commit of PR k starts, advances or
\* finishes, or a push replaces the head commit and with it the list of runs
CiUpdate(k, rs) ==
    /\ ci[k] # rs
    /\ ci' = [ci EXCEPT ![k] = rs]
    /\ UNCHANGED <<serverVars, nonCiEnv>>

\* ------------------------------------------- direct calls of the store
\* a caller invokes increment_fix_attempts(owner, repo, pr_number)
CallIncrement(t, k) ==
    /\ FreeWorker(t)
    /\ CountTrigger(k)
    /\ pc' = [pc EXCEPT ![t] = "inc_exec"]
    /\ kind' = [kind EXCEPT ![t] = "inc"]
    /\ key' = [key EXCEPT ![t] = k]
    /\ UNCHANGED <<url, attempts, ret, approved, store, writer, pending,
                   histVars>>
    /\ UNCHANGED envVars

\* the labels of the statements inside the try blocks of the task functions
TryLabels ==
    {"handle_fixissue", "parse", "is_completed", "get_attempts", "inc_exec",
     "inc_commit", "inc_select", "handle_fixpr", "mark_exec", "mark_commit",
     "github", "workflows", "handle_review"}

\* faulty variant: the statement is not inside a try block, the exception
\* leaves the task function
Fails_Unguarded(t) ==
    /\ pc[t] \in TryLabels
    /\ Goto(t, "escaped")
    /\ writer' = writer \ {t}
    /\ pending' = IF writer = {t} THEN Absent ELSE pending
    /\ UNCHANGED <<store, histVars, nTrig>>
    /\ UNCHANGED envVars

\* the statement the task is at raises an exception: parse_pr_url, a store
\* function (db_connection closes the connection, which drops what it has
\* not committed), a GitHub query, handle_fixissue / handle_fixpr /
\* handle_review
Fails(t) ==
    /\ pc[t] \in TryLabels
    /\ Raise(t)
    /\ writer' = writer \ {t}
    /\ pending' = IF writer = {t} THEN Absent ELSE pending
    /\ UNCHANGED <<store, histVars, nTrig>>
    /\ UNCHANGED envVars

\* faulty variant: the except clause calls the action once more
Except_Retry(t) ==
    /\ pc[t] = "except"
    /\ Goto(t, "handle_fixissue")
    /\ caught' = [caught EXCEPT ![t] = TRUE]
    /\ UNCHANGED <<store, writer, pending, histVars, nTrig>>
    /\ UNCHANGED nonFailEnv

\* except Exception as e: logger.error(...); the task function returns
Except(t) ==
    /\ pc[t] = "except"
    /\ Finish(t)
    /\ caught' = [caught EXCEPT ![t] = TRUE]
    /\ UNCHANGED <<store, writer, pending, histVars, nTrig>>
    /\ UNCHANGED nonFailEnv

\* a caller invokes mark_pr_completed(owner, repo, pr_number)
CallMark(t, k) ==
    /\ FreeWorker(t)
    /\ CountTrigger(k)
    /\ pc' = [pc EXCEPT ![t] = "mark_exec"]
    /\ kind' = [kind EXCEPT ![t] = "mark"]
    /\ key' = [key EXCEPT ![t] = k]
    /\ UNCHANGED <<url, attempts, ret, approved, store, writer, pending,
                   histVars>>
    /\ UNCHANGED envVars

\* an operator sets the counter of a row back to 0 in the table
OperatorReset(k) ==
    /\ writer = {}
    /\ store[k].present
    /\ store[k].attempts > 0
    /\ store' = [store EXCEPT ![k].attempts = 0]
    /\ UNCHANGED <<writer, pending, taskVars, histVars, nTrig>>
    /\ UNCHANGED envVars

\* ------------------------------------------------------- specifications
AllIdle == \A t \in Tasks : pc[t] = "idle"

FixStep(t) ==
    \/ ParsePrUrl(t)
    \/ IsPrCompleted(t)
    \/ GetFixAttempts(t)
    \/ IncExec(t)
    \/ IncCommit(t)
    \/ IncSelect(t)
    \/ MarkExec(t)
    \/ MarkCommit(t)
    \/ HandleFixpr(t)

ReviewStep(t) ==
    \/ GithubAccess(t)
    \/ \E rs \in RunLists : Workflows(t, rs)
    \/ HandleReview(t)

TaskStep(t) == FixStep(t) \/ ReviewStep(t)

\* events arrive at any time, the background tasks run concurrently
Next ==
    \/ \E t \in Tasks, u \in Urls :
          TotalTriggers < MaxTriggers /\ ScheduleFixPR(t, u)
    \/ \E t \in Tasks, u \in Urls :
          TotalTriggers < MaxTriggers /\ ScheduleReview(t, u)
    \/ \E t \in Tasks : TaskStep(t)

Spec == Init /\ [][Next]_vars

\* the server tasks together with direct callers of the store functions
NextStore ==
    \/ Next
    \/ \E t \in Tasks, k \in Keys :
          TotalTriggers < MaxTriggers /\ CallIncrement(t, k)
    \/ \E t \in Tasks, k \in Keys :
          TotalTriggers < MaxTriggers /\ CallMark(t, k)
    \/ \E t \in Tasks : IncReturn(t)

SpecStore == Init /\ [][NextStore]_vars

\* an operator may edit the table while the server runs
NextOp ==
    \/ Next
    \/ \E k \in Keys : OperatorReset(k)

SpecOp == Init /\ [][NextOp]_vars

\* review-submitted events only, each processed before the next arrives
NextSeq ==
    \/ \E t \in Tasks, u \in Urls :
          TotalTriggers < MaxSeqTriggers /\ AllIdle /\ ScheduleFixPR(t, u)
    \/ \E t \in Tasks : FixStep(t)

SpecSeq == Init /\ [][NextSeq]_vars

\* both kinds of event, each processed before the next arrives
NextSeqAll ==
    \/ \E t \in Tasks, u \in Urls :
          TotalTriggers < MaxSeqTriggers /\ AllIdle /\ ScheduleFixPR(t, u)
    \/ \E t \in Tasks, u \in Urls :
          TotalTriggers < MaxSeqTriggers /\ AllIdle /\ ScheduleReview(t, u)
    \/ \E t \in Tasks : TaskStep(t)

SpecSeqAll == Init /\ [][NextSeqAll]_vars

\* check-suite events only; the runs are read from GitHub when the task
\* reaches the check, and they change while tasks are waiting or running
CiStep(t) ==
    \/ ParsePrUrl(t)
    \/ IsPrCompleted(t)
    \/ GithubAccess(t)
    \/ Workflows(t, ci[key[t]])
    \/ HandleReview(t)
    \/ MarkExec(t)
    \/ MarkCommit(t)

NextCi ==
    \/ \E t \in Tasks, u \in Urls :
          TotalTriggers < MaxCiTriggers /\ ScheduleReview(t, u)
    \/ \E k \in Keys, rs \in RunLists : CiUpdate(k, rs)
    \/ \E t \in Tasks : CiStep(t)

SpecCi == Init /\ [][NextCi]_vars

\* the webhook endpoint in front of the background tasks
NextHook ==
    \/ \E c \in SigClasses : Receive(c)
    \/ VerifySignature
    \/ ParseJson(IF TotalTriggers < MaxHookTriggers
                 THEN Payloads ELSE NoPrPayloads)
    \/ Route
    \/ \E t \in Tasks : TaskStep(t)
    \/ \E t \in Tasks : HandleFixissue(t)

SpecHook == Init /\ [][NextHook]_vars

\* verify_github_signature called with any body and any header
InitSig ==
    /\ ServerInit
    /\ EnvInit
    /\ \E b \in Bodies, h \in Headers : SigInit(b, h)
    /\ ToolsInit(NoTree, PlainFs)

NextSig == SigCall

SpecSig == InitSig /\ [][NextSig]_vars

\* the three kinds of task, any statement of which may raise
NextFail ==
    \/ \E t \in Tasks : TotalTriggers < MaxFailTriggers /\ ScheduleFixIssue(t)
    \/ \E t \in Tasks, u \in Urls :
          TotalTriggers < MaxFailTriggers /\ ScheduleFixPR(t, u)
    \/ \E t \in Tasks, u \in Urls :
          TotalTriggers < MaxFailTriggers /\ ScheduleReview(t, u)
    \/ \E t \in Tasks : TaskStep(t)
    \/ \E t \in Tasks : HandleFixissue(t)
    \/ \E t \in Tasks : Fails(t)
    \/ \E t \in Tasks : Except(t)

SpecFail == Init /\ [][NextFail]_vars

\* agent runs on the workers of the pool, at the same time
NextAgents ==
    \/ \E t \in Tasks : AgentStart(t)
    \/ \E t \in Tasks : CreateFileTools(t)
    \/ \E t \in Tasks : ToolCall(t)
    \/ \E t \in Tasks : AgentReturn(t)

SpecAgents == Init /\ [][NextAgents]_vars

\* one agent run calls the tools that change files, in any order, on any
\* of the filesystems
InitFs ==
    /\ ServerInit
    /\ EnvInit
    /\ SigInit("{}", <<>>)
    /\ \E su \in Setups : ToolsInit(su[1], su[2])

NextFs ==
    \/ \E a \in PathArgs, data \in ContentArgs : SaveFile(a, data)
    \/ \E a \in PathArgs, n \in LineArgs, data \in ContentArgs :
          InsertLines(a, n, data)
    \/ \E a \in PathArgs, m \in 0..MaxLine, n \in 0..MaxLine,
            data \in ContentArgs : ReplaceFileChunk(a, m, n, data)
    \/ \E a \in PathArgs : DeleteFile(a)

SpecFs == InitFs /\ [][NextFs]_vars

\* one agent run calls any of the nine tools, in any order, on any of the
\* filesystems, also before create_file_tools
InitTools ==
    /\ ServerInit
    /\ EnvInit
    /\ SigInit("{}", <<>>)
    /\ \E su \in ToolSetups : ToolsInit(su[1], su[2])

NextTools ==
    /\ nCalls < MaxToolCalls
    /\ \/ NextFs
       \/ \E a \in PathArgs : ReadFile(a)
       \/ \E a \in PathArgs, m \in 0..MaxLine, n \in 0..MaxLine :
             ReadFileChunk(a, m, n)
       \/ \E a \in PathArgs : ListFiles(a)
       \/ \E pattern \in PatternArgs : SearchFiles(pattern)
       \/ \E a \in PathArgs, pattern \in PatternArgs : GrepSearch(a, pattern)

SpecTools == InitTools /\ [][NextTools]_vars

\* one agent run reads a file of any text by line numbers, or changes it by
\* line numbers and then reads it
InitLines ==
    /\ ServerInit
    /\ EnvInit
    /\ SigInit("{}", <<>>)
    /\ \E text \in Texts : ToolsInit(<<"w", "r">>, LineFs(text))

NextLines ==
    \/ \E n \in AfterLines, data \in NewTexts : InsertLinesAt(n, data)
    \/ \E m \in LineNumbers, n \in LineNumbers, data \in NewTexts :
          ReplaceFileChunkAt(m, n, data)
    \/ \E m \in LineNumbers, n \in LineNumbers : ReadFileChunkAt(m, n)

SpecLines == InitLines /\ [][NextLines]_vars

\* one agent run calls search_files or grep_search once, on any of the
\* filesystems
InitGrep ==
    /\ ServerInit
    /\ EnvInit
    /\ SigInit("{}", <<>>)
    /\ \E su \in GrepSetups : ToolsInit(su[1], su[2])

NextGrep ==
    \/ \E pattern \in GlobArgs : SearchFilesFor(pattern)
    \/ \E query \in QueryArgs, a \in GrepPaths, pattern \in GlobArgs :
          GrepSearchFor(query, a, pattern)

SpecGrep == InitGrep /\ [][NextGrep]_vars

\* one call of get_unique_branch_name, for any name asked for and any refs
\* of the remote
NextBranch ==
    \/ \E refs \in SUBSET RefPool, name \in BaseNames :
          GetUniqueBranchName(refs, name)
    \/ CheckBaseName
    \/ TryCandidate

SpecBranch == Init /\ [][NextBranch]_vars

\* the call is made and, once made, goes on: the function runs without
\* waiting for anything
SpecBranchLive == SpecBranch /\ WF_vars(NextBranch)

TypeOK ==
    /\ writer \subseteq Tasks
    /\ Cardinality(writer) <= 1
    /\ \A k \in Keys : store[k].attempts \in Nat

\* ---------------------------------------------------------- properties
\* some task is working on key k (its pr_url parses to k)
Active(k) == \E t \in Tasks : pc[t] # "idle" /\ (url[t] = k \/ key[t] = k)

\* task t takes a step
Steps(t) == pc'[t] # pc[t]

\* the task has passed the retry gate and is running increment / fix
PastGate(t) == pc[t] \in {"inc_exec", "inc_commit", "inc_select", "handle_fixpr"}

UpTo(n) == [i \in 1..n |-> i]

\* C1: for every PR key, in every interleaving of concurrently running
\* review-submitted tasks, handle_fixpr is started at most MAX_RETRIES times
\* and the stored attempts never exceed MAX_RETRIES.
C1_RetryBound ==
    \A k \in Keys :
        /\ Len(fixLog[k]) <= MAX_RETRIES
        /\ get_fix_attempts(store[k]) <= MAX_RETRIES

\* C2: two concurrently handled triggers for one key never pass the retry
\* gate on the same observed attempts value, so every started fix run has
\* its own attempt number.
C2_DistinctAttemptNumbers ==
    /\ \A k \in Keys : \A i, j \in 1..Len(fixLog[k]) :
          i # j => fixLog[k][i] # fixLog[k][j]
    /\ \A t1, t2 \in Tasks :
          (t1 # t2 /\ PastGate(t1) /\ PastGate(t2) /\ key[t1] = key[t2])
             => attempts[t1] # attempts[t2]

\* C3: review-submitted triggers for a key processed one after another from
\* an absent record: trigger i <= MAX_RETRIES raises attempts to exactly i
\* and runs the fix; trigger MAX_RETRIES + 1 runs no fix, keeps attempts and
\* sets completed; later triggers run no fix and leave the record as it is.
C3_SequentialScenario ==
    \A k \in Keys :
        LET n == nTrig[k] IN
        /\ \A t \in Tasks :
              (pc[t] = "handle_fixpr" /\ key[t] = k) =>
                 /\ n <= MAX_RETRIES
                 /\ attempts[t] + 1 = n
                 /\ store[k].attempts = n
                 /\ fixLog[k] = UpTo(n - 1)
        /\ ~Active(k) =>
              IF n = 0 THEN store[k] = Absent /\ fixLog[k] = <<>>
              ELSE IF n <= MAX_RETRIES
              THEN /\ store[k] = [present |-> TRUE, attempts |-> n,
                                  completed |-> FALSE]
                   /\ fixLog[k] = UpTo(n)
              ELSE /\ store[k] = [present |-> TRUE, attempts |-> MAX_RETRIES,
                                  completed |-> TRUE]
                   /\ fixLog[k] = UpTo(MAX_RETRIES)

\* the fifth trigger of the scenario has been processed
C3_Witness ==
    \E k \in Keys :
        /\ nTrig[k] = MAX_RETRIES + 2
        /\ ~Active(k)
        /\ store[k].completed
        /\ Len(fixLog[k]) = MAX_RETRIES

\* C4: a trigger processed while completed = true runs neither the fix nor
\* the review and modifies nothing, whatever attempts is, also after an
\* operator has reset attempts to 0.
C4_CompletedWins ==
    [][ /\ \A t \in Tasks :
             (pc[t] = "is_completed" /\ is_pr_completed(store[key[t]])
                /\ Steps(t))
             => /\ pc'[t] = "idle"
                /\ store' = store
                /\ fixLog' = fixLog
                /\ writer' = writer
        /\ \A k \in Keys :
             (/\ is_pr_completed(store[k])
              /\ \A t \in Tasks :
                   key[t] = k => pc[t] \in {"idle", "is_completed"})
             => /\ fixLog'[k] = fixLog[k]
                /\ \A t \in Tasks :
                      key'[t] = k => pc'[t] \in {"idle", "is_completed"}
                /\ \/ store'[k] = store[k]
                   \/ store'[k] = [store[k] EXCEPT !.attempts = 0]
      ]_vars

\* a trigger is at its completed check for a completed key whose counter an
\* operator has reset
C4_Witness ==
    \E t \in Tasks :
        /\ pc[t] = "is_completed"
        /\ store[key[t]].completed
        /\ store[key[t]].attempts = 0
        /\ incCount[key[t]] > 0

\* C5: once completed = true for a key it never becomes false again, in
\* particular not through an increment of an already completed record.
C5_CompletedStable ==
    [][\A k \in Keys : store[k].completed => store'[k].completed]_vars

\* an increment has run its upsert on a record that was already completed
C5_Witness ==
    \E t \in Tasks :
        /\ pc[t] = "inc_commit"
        /\ writer = {t}
        /\ store[key[t]].completed
        /\ pending.completed
        /\ pending.attempts = store[key[t]].attempts + 1

\* C6: the stored attempts of a key never decrease; mark_pr_completed keeps
\* the attempts of an existing record and creates an absent one with 0.
C6_AttemptsMonotone ==
    [][\A k \in Keys :
          /\ get_fix_attempts(store'[k]) >= get_fix_attempts(store[k])
          /\ (store'[k].completed /\ ~store[k].completed)
                => store'[k].attempts = get_fix_attempts(store[k])
      ]_vars

\* a record with counted attempts has been marked completed, and another
\* was created by the mark itself
C6_Witness ==
    /\ \E k \in Keys : store[k].completed /\ store[k].attempts >= 1
    /\ \E k \in Keys : store[k].completed /\ store[k].attempts = 0

Fresh(r) == get_fix_attempts(r) = 0 /\ ~is_pr_completed(r)
Exhausted(r) == is_pr_completed(r)

C8_NoLostUpdate ==
    \A k \in Keys : get_fix_attempts(store[k]) = incCount[k]

\* two calls for the same key are in flight together, both have committed
\* and neither has returned
C8_Witness ==
    \E t1, t2 \in Tasks :
        /\ t1 # t2
        /\ kind[t1] = "inc" /\ kind[t2] = "inc"
        /\ pc[t1] = "inc_select" /\ pc[t2] = "inc_select"
        /\ key[t1] = key[t2]
        /\ store[key[t1]].attempts >= 3

\* C9: mark_pr_completed is idempotent: a second mark leaves the record as
\* the first left it, attempts unchanged and completed true.
C9_MarkIdempotent ==
    /\ \A k \in Keys :
          LET m == MarkUpsert(store[k]) IN
          /\ MarkUpsert(m) = m
          /\ m.attempts = get_fix_attempts(store[k])
          /\ m.completed
    /\ \A t \in Tasks :
          (pc[t] = "mark_commit" /\ is_pr_completed(store[key[t]]))
             => pending = store[key[t]]

\* a second mark is about to commit on a record that is already completed
\* and has counted attempts
C9_Witness ==
    \E t \in Tasks :
        /\ kind[t] = "mark"
        /\ pc[t] = "mark_commit"
        /\ store[key[t]].completed
        /\ store[key[t]].attempts >= 1

\* C10: processing a check-suite event never changes the attempts of any
\* key; an approving review sets completed for its key and nothing else, a
\* non-approving one leaves the store as it was.
C10_ReviewFrame ==
    [][\A t \in Tasks :
          (kind[t] = "review" /\ Steps(t)) =>
             /\ pc[t] \in {"mark_exec", "mark_commit"} => approved[t]
             /\ fixLog' = fixLog
             /\ \A k \in Keys :
                   /\ get_fix_attempts(store'[k]) = get_fix_attempts(store[k])
                   /\ k # key[t] => store'[k] = store[k]
             /\ IF pc[t] = "mark_commit"
                THEN /\ is_pr_completed(store'[key[t]])
                     /\ store'[key[t]] = MarkUpsert(store[key[t]])
                ELSE store' = store
      ]_vars

\* an approving review has marked a record that had retries left, and
\* the attempts counted before it are still there
C10_Witness ==
    \E k \in Keys :
        /\ store[k].completed
        /\ store[k].attempts >= 1
        /\ store[k].attempts < MAX_RETRIES
        /\ ~Active(k)

\* some workflow run of the head commit of PR k is not in status completed
SomeRunPending(k) == \E i \in 1..Len(ci[k]) : ci[k][i] # "completed"

\* C11: a check-suite task starts the review only from the workflow check
\* and only if, at the time of the check, no run of the PR's head commit is
\* pending; if a run is pending the task ends at the check: no review, no
\* task queued or started for later, the attempt store left unchanged.
C11_ReviewOnlyWhenAllCompleted ==
    [][\A t \in Tasks :
          /\ (pc'[t] = "handle_review" /\ pc[t] # "handle_review")
                => pc[t] = "workflows" /\ ~SomeRunPending(key[t])
          /\ (pc[t] = "workflows" /\ Steps(t) /\ SomeRunPending(key[t]))
                => /\ pc'[t] = "idle"
                   /\ UNCHANGED <<store, writer, pending, nTrig>>
                   /\ \A o \in Tasks \ {t} : pc'[o] = pc[o]]_vars

\* one task is in the review after a check that found two completed runs,
\* another is at the check while a run of its PR is still in progress
C11_Witness ==
    \E t, o \in Tasks :
        /\ pc[t] = "handle_review"
        /\ ci[key[t]] = <<"completed", "completed">>
        /\ pc[o] = "workflows"
        /\ ci[key[o]] = <<"completed", "in_progress">>

\* the workers that the step hands a task to
Started == {t \in Tasks : pc[t] = "idle" /\ pc'[t] # "idle"}

\* the step starts exactly one task: f(u)
StartsOnly(f, u) ==
    \E t \in Tasks :
        /\ Started = {t}
        /\ kind'[t] = f
        /\ url'[t] = u

\* C12: for every (event, action) of a request that passed the signature
\* check and was parsed, the handler answers with exactly one response,
\* never an error, starts at most one task and changes nothing in the
\* store; it starts a task only for (issues, opened) with an issue URL,
\* (pull_request_review, submitted) with a PR URL and (check_suite,
\* completed) with a pull request; ping and every other pair get the
\* ignore response and no task.
C12_ClassificationTotal ==
    [][hpc = "route" /\ hpc' # hpc =>
          /\ hpc' = "idle"
          /\ resp'.status = "200"
          /\ Cardinality(Started) <= 1
          /\ UNCHANGED <<store, writer, pending>>
          /\ \A t \in Tasks \ Started : pc'[t] = pc[t]
          /\ Started # {} =>
                \/ /\ payload.event = "issues" /\ payload.action = "opened"
                   /\ payload.issue_url # NoUrl
                   /\ StartsOnly("issue", payload.issue_url)
                \/ /\ payload.event = "pull_request_review"
                   /\ payload.action = "submitted"
                   /\ payload.pr_url # NoUrl
                   /\ StartsOnly("fixpr", payload.pr_url)
                \/ /\ payload.event = "check_suite"
                   /\ payload.action = "completed"
                   /\ payload.prs # <<>>
                   /\ kind'[CHOOSE t \in Started : TRUE] = "review"
          /\ (\/ payload.event = "ping"
              \/ <<payload.event, payload.action>> \notin
                    {<<"issues", "opened">>,
                     <<"pull_request_review", "submitted">>,
                     <<"check_suite", "completed">>})
                => /\ Started = {}
                   /\ resp' = IF payload.event = "ping"
                              THEN RespPong ELSE RespIgnored]_vars

\* an issues event with an action other than opened, which carried an issue
\* URL, was answered with the ignore response while a task scheduled by an
\* earlier request is running
C12_Witness ==
    /\ hpc = "idle"
    /\ payload.event = "issues"
    /\ payload.action = "completed"
    /\ payload.issue_url = IssueUrl
    /\ resp = RespIgnored
    /\ \E t \in Tasks : kind[t] = "fixpr" /\ pc[t] = "get_attempts"

\* C13: a (check_suite, completed) request starts a task iff its payload
\* lists a pull request, and then exactly one, the review of the first
\* listed pull request; with no pull request it is answered "No PRs in
\* check_suite" and nothing is started.
C13_CheckSuiteFirstPR ==
    [][(/\ hpc = "route" /\ hpc' # hpc
        /\ payload.event = "check_suite" /\ payload.action = "completed") =>
          IF payload.prs = <<>>
          THEN /\ Started = {}
               /\ resp' = RespNoPRs
               /\ UNCHANGED serverVars
          ELSE /\ StartsOnly("review", payload.prs[1])
               /\ resp' = RespReview]_vars

\* a check_suite request listing two pull requests was answered and one
\* review task, for the first of the two, is starting; the other worker is
\* idle
C13_Witness ==
    /\ hpc = "idle"
    /\ resp = RespReview
    /\ Len(payload.prs) = MaxPrs
    /\ \E t \in Tasks :
          /\ pc[t] = "parse" /\ kind[t] = "review" /\ url[t] = payload.prs[1]
          /\ \A o \in Tasks \ {t} : pc[o] = "idle"

\* C15: the body is parsed and the request classified only after the
\* signature check has accepted the request; a request that the check
\* does not accept is answered with an error status, its body unparsed, no
\* task started and the store unchanged.
C15_SignatureFirst ==
    [][/\ (payload'.parsed /\ ~payload.parsed)
            => hpc = "json" /\ SignatureResponse(sig) = RespNone
       /\ hpc' \in {"json", "route"} => SignatureResponse(sig') = RespNone
       /\ (hpc = "verify" /\ hpc' # hpc /\ SignatureResponse(sig) # RespNone)
            => /\ hpc' = "idle"
               /\ resp' = SignatureResponse(sig)
               /\ resp'.status # "200"
               /\ ~payload'.parsed
               /\ Started = {}
               /\ UNCHANGED serverVars]_vars

\* a request with a wrong digest was answered 401, its body never parsed,
\* while the task of an earlier, accepted request is running
C15_Witness ==
    /\ hpc = "idle"
    /\ sig = "mismatch"
    /\ resp = RespInvalid
    /\ ~payload.parsed
    /\ \E t \in Tasks : pc[t] = "handle_fixpr"

\* the header that GitHub computes for the body
ExpectedHeader(b) == <<"sha256", "=">> \o hexdigest(b)

\* C14: verify_github_signature returns iff the header is exactly "sha256="
\* followed by the hex digest of the body; a missing header, a header
\* without "=" and an algorithm other than sha256 raise 400, every other
\* header that differs from the expected one raises 401.
C14_SignatureVerdicts ==
    sigResult.done =>
        /\ sigResult.out = RespNone <=> sigHeader = ExpectedHeader(sigBody)
        /\ IF \/ sigHeader = <<>>
              \/ FirstEq(sigHeader) = 0
              \/ SubSeq(sigHeader, 1, FirstEq(sigHeader) - 1) # <<"sha256">>
           THEN sigResult.out.status = "400"
           ELSE sigHeader # ExpectedHeader(sigBody)
                  => sigResult.out.status = "401"

\* the locals of task o are left as they are
SameLocals(o) ==
    /\ pc'[o] = pc[o] /\ kind'[o] = kind[o] /\ url'[o] = url[o]
    /\ key'[o] = key[o] /\ attempts'[o] = attempts[o]
    /\ ret'[o] = ret[o] /\ approved'[o] = approved[o]

\* C16: an exception raised by any statement of a background task takes
\* the task to its own except clause and nowhere else: the committed table
\* and all other tasks are left as they are, the task gives up the write
\* lock, the except clause returns, and the worker is free for the next
\* event. A URL that does not parse ends the task the same way.
C16_FailuresCaught ==
    [][\A t \in Tasks :
          /\ pc'[t] \in TryLabels \cup {"idle", "except"}
          /\ (pc'[t] = "except" /\ pc[t] # "except")
                => /\ pc[t] \in TryLabels
                   /\ store' = store
                   /\ t \notin writer'
                   /\ \A o \in Tasks \ {t} : SameLocals(o)
          /\ (pc[t] = "except" /\ Steps(t))
                => /\ pc'[t] = "idle"
                   /\ caught'[t]
                   /\ UNCHANGED <<store, writer, pending>>
                   /\ \A o \in Tasks \ {t} : SameLocals(o)
          /\ (pc[t] = "parse" /\ url[t] \notin Keys /\ Steps(t))
                => /\ pc'[t] \in {"idle", "except"}
                   /\ UNCHANGED <<store, writer, pending>>
                   /\ \A o \in Tasks \ {t} : SameLocals(o)]_vars

\* a worker whose task ended in its except clause is running the fix of a
\* later event, while the task on another worker is in its except clause
\* and no connection holds the write lock
C16_Witness ==
    \E t, o \in Tasks :
        /\ caught[t]
        /\ pc[t] = "handle_fixpr"
        /\ pc[o] = "except"
        /\ ~caught[o]
        /\ writer = {}

\* C17: every tool call of an agent run resolves its path in the tree that
\* was configured for that run, and every tree is written by the run it
\* was configured for only, also when another run calls create_file_tools
\* in between.
C17_OwnTreeOnly ==
    /\ \A t \in Tasks : used[t] \in {NoTree, RepoPath(t)}
    /\ \A t \in Tasks : files[RepoPath(t)] \subseteq {t}

\* a file tool is called and returns
ToolStep == nCalls' # nCalls

\* the canonical sandbox root and the canonical path of the argument of
\* the call that the step makes, before the call
CanonRoot == Resolved(fs, base_dir)
CanonArg == Resolved(fs, Joined(base_dir, call'.file_name))

\* the argument has a canonical path and it is the root or below it
ArgInside ==
    /\ CanonRoot # ELoop
    /\ CanonArg # ELoop
    /\ Within(CanonRoot, CanonArg)

\* C18 as stated: the path check accepts the argument iff its canonical
\* path is the canonical root or below it, every call returns, and the
\* argument "../x" is rejected always.
C18_PathCheckStrict ==
    [][ToolStep =>
          /\ (call'.result # "outside") <=> ArgInside
          /\ call'.result \in {"ok", "outside", "not_found", "range", "error"}
          /\ call'.file_name = Rel(<<"..", "x">>)
                => call'.result = "outside"]_vars

\* C18, amended: the path check accepts the argument iff its canonical
\* path is the canonical root or below it, and every call returns; the
\* argument "../x" is rejected unless x in the directory of the root is the
\* root itself or a symbolic link.
C18_PathCheck ==
    [][ToolStep =>
          /\ (call'.result # "outside") <=> ArgInside
          /\ call'.result \in {"ok", "outside", "not_found", "range", "error"}
          /\ (/\ call'.file_name = Rel(<<"..", "x">>)
              /\ Append(Parent(base_dir), "x") # base_dir
              /\ Lookup(fs, Append(Parent(base_dir), "x")).type # "link")
                => call'.result = "outside"]_vars

\* save_file("../x") was refused where x is a file next to the repository,
\* after an earlier call that changed nothing either
C18_Witness ==
    /\ nCalls = MaxCalls
    /\ call.tool = "save_file"
    /\ call.file_name = Rel(<<"..", "x">>)
    /\ call.result = "outside"
    /\ fs = PlainFs

\* C19: a call of save_file, insert_lines, replace_file_chunk or
\* delete_file leaves every path that is not the sandbox root or below it
\* as it was: nothing there is created, changed or removed; a call whose
\* argument escapes the root returns the error and changes nothing at all.
C19_NoWriteOutside ==
    [][ToolStep =>
          /\ \A p \in DOMAIN fs \cup DOMAIN fs' :
                ~Within(CanonRoot, p) => Lookup(fs', p) = Lookup(fs, p)
          /\ ~ArgInside => call'.result = "outside"
          /\ call'.result = "outside" => fs' = fs]_vars

\* delete_file with the absolute path of the file next to the repository
\* was refused and the file is there, after save_file("n/n") created a
\* directory and a file inside the repository
C19_Witness ==
    /\ call.tool = "delete_file"
    /\ call.file_name = Abs(<<"w", "x">>)
    /\ call.result = "outside"
    /\ Lookup(fs, <<"w", "x">>) = File(<<"a">>)
    /\ Lookup(fs, <<"w", "r", "n">>) = Dir
    /\ Lookup(fs, <<"w", "r", "n", "n">>).type = "file"

\* C20: when insert_lines or replace_file_chunk returns the error for
\* line numbers out of range, the file, like all of the filesystem, is
\* what it was before the call; no other tool returns that error.
C20_InvalidRangeUntouched ==
    [][(ToolStep /\ call'.result = "range") =>
          /\ call'.tool \in {"insert_lines", "replace_file_chunk"}
          /\ fs' = fs]_vars

\* replace_file_chunk on f returned the error, and f holds the three lines
\* that an insert_lines before it left there
C20_Witness ==
    /\ call.tool = "replace_file_chunk"
    /\ call.file_name = Rel(<<"f">>)
    /\ call.result = "range"
    /\ Lookup(fs, <<"w", "r", "f">>) = File(<<"a", "\n", "b", "\n">>)

\* ------------------------------------------------------------ line tools
\* a line tool is called on the file and returns
LineStep(name) == nCalls' # nCalls /\ call'.tool = name

\* the lines of the file before the call of the step, and their number:
\* the text cut at every "\n", so that the empty file is one empty line and
\* a text that ends in "\n" has an empty last line
OldLines == split(ReadText(fs, ThePath))
NewLines == split(ReadText(fs', ThePath))
Min(a, b) == IF a < b THEN a ELSE b

\* C21: read_file_chunk(start, end) on a file of n lines succeeds iff
\* 1 <= start <= end and start <= n, and then returns lines
\* start..min(end, n) joined by "\n"; with end beyond n the text is that of
\* the call with end = n; in every other case the call returns the error
\* for line numbers.
C21_ReadChunk ==
    [][LineStep("read_file_chunk") =>
          LET start == io'.args[1]
              end == io'.args[2]
              n == Len(OldLines)
          IN  /\ (call'.result = "ok")
                    <=> (1 <= start /\ start <= end /\ start <= n)
              /\ call'.result = "ok"
                    => io'.text = join(SubSeq(OldLines, start, Min(end, n)))
              /\ (call'.result = "ok" /\ end > n)
                    => io'.text
                         = read_file_chunk(fs, base_dir, TheFile, start, n).text
              /\ call'.result # "ok" => call'.result = "range"
              /\ start > n => call'.result = "range"]_vars

\* lines 2..4 were asked of the two lines "a" and "b", and "b" came back
C21_Witness ==
    /\ call.tool = "read_file_chunk"
    /\ call.result = "ok"
    /\ io.args = <<2, 4>>
    /\ io.old = <<"a", "\n", "b">>
    /\ io.text = <<"b">>

\* the lines that a content / new_content argument stands for: none when
\* it is empty
TextLines(text) == IF text = <<>> THEN <<>> ELSE split(text)

\* C22: insert_lines(after_line, content) on a file of n lines succeeds
\* iff 0 <= after_line <= n; the lines of the file are then the old lines
\* 1..after_line, the lines of content, the old lines after_line+1..n, so
\* that with after_line = 0 the text comes before the first line; a call
\* that does not succeed leaves the file as it was.
C22_InsertSplices ==
    [][LineStep("insert_lines") =>
          LET after_line == io'.args[1]
              content == io'.args[2]
              n == Len(OldLines)
          IN  /\ (call'.result = "ok") <=> (0 <= after_line /\ after_line <= n)
              /\ call'.result = "ok"
                    => NewLines = SubSeq(OldLines, 1, after_line)
                                    \o TextLines(content)
                                    \o SubSeq(OldLines, after_line + 1, n)
              /\ (call'.result = "ok" /\ after_line = 0)
                    => NewLines = TextLines(content) \o OldLines
              /\ call'.result # "ok" => fs' = fs]_vars

\* "b" and an empty line were put between the lines "a" and "b"
C22_Witness ==
    /\ call.tool = "insert_lines"
    /\ call.result = "ok"
    /\ io.args = <<1, <<"b", "\n">>>>
    /\ io.old = <<"a", "\n", "b">>
    /\ ReadText(fs, ThePath) = <<"a", "\n", "b", "\n", "\n", "b">>

\* a is a run of neighbouring elements of b
IsContiguousIn(a, b) ==
    \E i \in 0..(Len(b) - Len(a)) : SubSeq(b, i + 1, i + Len(a)) = a

\* b is a with one block of elements put in at some place
IsWithBlockAdded(a, b) ==
    /\ Len(b) >= Len(a)
    /\ \E i \in 0..Len(a) :
          /\ SubSeq(b, 1, i) = SubSeq(a, 1, i)
          /\ SubSeq(b, Len(b) - (Len(a) - i) + 1, Len(b))
                = SubSeq(a, i + 1, Len(a))

\* C23 as stated: after every successful insert_lines the old lines of the
\* file are a contiguous subsequence of its new lines, and
\* insert_lines(0, "X") makes "X" the first line.
C23_ContiguousStrict ==
    [][(LineStep("insert_lines") /\ call'.result = "ok") =>
          /\ IsContiguousIn(OldLines, NewLines)
          /\ io'.args = <<0, <<"X">>>> => NewLines[1] = <<"X">>]_vars

\* C23, amended: after every successful insert_lines every old line of the
\* file is still there and in its order: the new lines are the old lines
\* with one block of lines put in at some place (so the old lines are a
\* subsequence of the new ones, contiguous only when the block is at the
\* start or the end); insert_lines(0, "X") makes "X" the first line and
\* the old lines follow it.
C23_NoLineRemoved ==
    [][(LineStep("insert_lines") /\ call'.result = "ok") =>
          /\ IsWithBlockAdded(OldLines, NewLines)
          /\ io'.args = <<0, <<"X">>>>
                => (NewLines[1] = <<"X">> /\ Tail(NewLines) = OldLines)]_vars

\* "X" was put between the lines "a" and "b", which are no longer neighbours
C23_Witness ==
    /\ call.tool = "insert_lines"
    /\ call.result = "ok"
    /\ io.args = <<1, <<"X">>>>
    /\ io.old = <<"a", "\n", "b">>
    /\ ReadText(fs, ThePath) = <<"a", "\n", "X", "\n", "b">>

\* C24: replace_file_chunk(start, end, new_content) on a file of n lines
\* with end > n returns the error for line numbers and leaves the file as
\* it was, also when 1 <= start <= n.
C24_ReplaceStrictEnd ==
    [][LineStep("replace_file_chunk") =>
          LET end_line == io'.args[2]
              n == Len(OldLines)
          IN  end_line > n => (call'.result = "range" /\ fs' = fs)]_vars

\* the call before the step was a successful replace_file_chunk of the
\* lines start..end of a file of n lines, 1 <= start <= end <= n, with
\* empty new_content
RemovedLines ==
    /\ call.tool = "replace_file_chunk"
    /\ call.result = "ok"
    /\ io.args[3] = <<>>
    /\ 1 <= io.args[1]
    /\ io.args[1] <= io.args[2]
    /\ io.args[2] <= Len(split(io.old))

\* the lines of that file outside start..end, in their order
LinesLeft ==
    SubSeq(split(io.old), 1, io.args[1] - 1)
      \o SubSeq(split(io.old), io.args[2] + 1, Len(split(io.old)))

\* C25: replace_file_chunk(start, end, "") on a file of n lines with
\* 1 <= start <= end <= n succeeds, and a read_file_chunk after it sees the
\* n - (end - start + 1) lines outside start..end in their order and no
\* other line: it succeeds iff it would on these lines and returns of them
\* what it asks for; this includes the range that covers the whole file,
\* after which no line is left to read.
C25_RemovesExactly ==
    [][/\ (/\ LineStep("replace_file_chunk")
           /\ io'.args[3] = <<>>
           /\ 1 <= io'.args[1]
           /\ io'.args[1] <= io'.args[2]
           /\ io'.args[2] <= Len(OldLines))
          => call'.result = "ok"
       /\ (LineStep("read_file_chunk") /\ RemovedLines)
          => LET s == io'.args[1]
                 e == io'.args[2]
                 left == Len(split(io.old)) - (io.args[2] - io.args[1] + 1)
             IN  /\ Len(LinesLeft) = left
                 /\ (call'.result = "ok") <=> (1 <= s /\ s <= e /\ s <= left)
                 /\ call'.result = "ok"
                       => io'.text = join(SubSeq(LinesLeft, s, Min(e, left)))
       ]_vars

\* ------------------------------------------------------- the nine tools
\* C26: every call of a tool that does not succeed returns a string that
\* begins with "Error:"; every other call returns the content or listing
\* asked for, or the status of the change made.
C26_ErrorPrefix ==
    [][ToolStep =>
          /\ call'.result # "ok"
                => Message(call'.tool, call'.result)[1] = "Error:"
          /\ call'.result = "ok"
                => Message(call'.tool, call'.result)[1] \in {"Successfully", ""}
      ]_vars

\* the kinds of result that are a returned string
StringResults ==
    {"ok", "outside", "not_found", "range", "not_dir", "unset", "error"}

\* the tools whose argument is the path of a file to be read
FileReaders ==
    {"read_file", "read_file_chunk", "insert_lines", "replace_file_chunk"}

\* the step calls a tool with a path that is inside the root, and what
\* that path holds, links followed
InsideCall ==
    /\ ToolStep
    /\ call'.tool # "search_files"
    /\ base_dir # NoTree
    /\ ArgInside
Held == Lookup(fs, CanonArg)

\* C27: every call of each of the nine tools returns a string, whatever
\* the arguments and the filesystem: with no base directory set, with a
\* path that escapes the root, with a file that is not there, with a
\* directory where a file is expected and with content that cannot be
\* decoded the call returns the error string for that case.
C27_NeverRaises ==
    [][ToolStep =>
          /\ call'.result \in StringResults
          /\ Len(Message(call'.tool, call'.result)) = 2
          /\ base_dir = NoTree => call'.result \in {"outside", "unset"}
          /\ (base_dir # NoTree /\ call'.tool # "search_files" /\ ~ArgInside)
                => call'.result = "outside"
          /\ (InsideCall /\ call'.tool \in FileReaders \cup {"delete_file"}
                /\ Held.type = "none")
                => call'.result = "not_found"
          /\ (InsideCall /\ call'.tool \in FileReaders \cup {"save_file"}
                /\ Held.type = "dir")
                => call'.result = "error"
          /\ (InsideCall /\ call'.tool \in FileReaders
                /\ Held.type = "file" /\ ~Decodable(Held.data))
                => call'.result \in {"error", "range"}
          /\ (InsideCall /\ call'.tool = "read_file"
                /\ Held.type = "file" /\ ~Decodable(Held.data))
                => call'.result = "error"]_vars

\* read_file of the file that cannot be decoded returned its error string
C27_Witness ==
    /\ call.tool = "read_file"
    /\ call.file_name = Rel(<<"f">>)
    /\ call.result = "error"
    /\ Lookup(fs, <<"w", "r", "f">>) = File(<<BadByte>>)

\* C28: a call of read_file, read_file_chunk, list_files, search_files or
\* grep_search, whether it succeeds or not, leaves the filesystem as it
\* was: the same paths exist and hold what they held.
C28_ReadOnly ==
    [][(ToolStep /\ call'.tool \in ReadTools) =>
          /\ DOMAIN fs' = DOMAIN fs
          /\ \A p \in DOMAIN fs : fs'[p] = fs[p]]_vars

\* list_files of a directory that is not there returned its error, and
\* the directory is still not there
C28_Witness ==
    /\ call.tool = "list_files"
    /\ call.file_name = Rel(<<"d", "n">>)
    /\ call.result = "not_dir"
    /\ Lookup(fs, <<"w", "r", "d", "n">>) = NoEntry
    /\ fs = SiblingFs

\* --------------------------------------------------- queries of the store
\* task t makes the step that stands at label
StepsAt(t, label) == pc[t] = label /\ Steps(t)

\* C29: for a key without a row is_pr_completed gives false (the task
\* goes on) and get_fix_attempts gives 0, and the call returns; neither
\* query changes the table; a row comes into being only by the commit of
\* increment_fix_attempts or of mark_pr_completed for its key.
C29_QueriesOfAbsentKey ==
    [][/\ \A t \in Tasks :
            /\ StepsAt(t, "is_completed")
                  => /\ store' = store
                     /\ ~store[key[t]].present
                           => pc'[t] \in {"get_attempts", "github"}
            /\ StepsAt(t, "get_attempts")
                  => /\ store' = store
                     /\ ~store[key[t]].present
                           => (attempts'[t] = 0 /\ pc'[t] = "inc_exec")
       /\ \A k \in Keys :
            (~store[k].present /\ store'[k].present)
               => \E t \in Tasks :
                     /\ key[t] = k
                     /\ StepsAt(t, "inc_commit") \/ StepsAt(t, "mark_commit")
      ]_vars

\* a task has asked both questions about a key that has no row, got 0
\* attempts, and the key still has no row
C29_Witness ==
    \E t \in Tasks :
       /\ pc[t] = "inc_exec"
       /\ kind[t] = "fixpr"
       /\ attempts[t] = 0
       /\ ~store[key[t]].present
       /\ \A k \in Keys : store[k] = Absent

\* C30: when events are processed one after another and the task of a
\* check_suite event finds its key not completed with attempts at or
\* above MAX_RETRIES, it goes on to mark the key completed and does not
\* run handle_review.
C30_ReviewRetryLimit ==
    [][\A t \in Tasks :
          /\ (/\ kind[t] = "review"
               /\ StepsAt(t, "is_completed")
               /\ ~is_pr_completed(store[key[t]])
               /\ RetryLimitReached(get_fix_attempts(store[key[t]])))
                => pc'[t] = "mark_exec"
          /\ (kind[t] = "review" /\ pc'[t] = "handle_review")
                => ~RetryLimitReached(get_fix_attempts(store[key[t]]))
      ]_vars

\* ------------------------------------------------ one action per event
\* the labels at which a task calls handle_fixissue, handle_fixpr or
\* handle_review
ActionLabels == {"handle_fixissue", "handle_fixpr", "handle_review"}

\* the place of a statement in the text of the task functions: control
\* that only moves to higher places passes each statement at most once
Place(label) ==
    CASE label = "idle" -> 0
      [] label = "parse" -> 1
      [] label = "is_completed" -> 2
      [] label = "get_attempts" -> 3
      [] label = "inc_exec" -> 4
      [] label = "inc_commit" -> 5
      [] label = "inc_select" -> 6
      [] label \in {"github", "inc_return"} -> 7
      [] label = "workflows" -> 8
      [] label \in ActionLabels -> 9
      [] label = "mark_exec" -> 10
      [] label = "mark_commit" -> 11
      [] label = "except" -> 12

\* C31: a background task only moves forward through its function until
\* it returns, so it calls handle_fixissue, handle_fixpr or handle_review
\* at most once; when that call raises, the task goes to its except
\* clause and from there returns, and the failure starts no task: every
\* other worker stays where it is and no event is counted.
C31_OneActionPerEvent ==
    [][\A t \in Tasks :
          /\ (Steps(t) /\ pc[t] # "idle")
                => (pc'[t] = "idle" \/ Place(pc'[t]) > Place(pc[t]))
          /\ (Steps(t) /\ pc'[t] \in ActionLabels)
                => pc[t] \in {"idle", "inc_select", "workflows"}
          /\ (pc[t] \in ActionLabels /\ pc'[t] = "except")
                => /\ nTrig' = nTrig
                   /\ \A o \in Tasks \ {t} : SameLocals(o)
          /\ (pc[t] = "except" /\ Steps(t))
                => /\ pc'[t] = "idle"
                   /\ nTrig' = nTrig
                   /\ \A o \in Tasks \ {t} : SameLocals(o)]_vars

\* the task of the one review-submitted event counted its attempt, failed
\* before handle_fixpr returned and ended in its except clause; no task
\* runs
C31_Witness ==
    /\ AllIdle
    /\ \E t \in Tasks : caught[t]
    /\ \E k \in Keys :
          /\ store[k].attempts = 1
          /\ fixLog[k] = <<>>
          /\ nTrig[k] = 1

\* --------------------------------------- what increment_fix_attempts returns
\* C32: calls of increment_fix_attempts for one key that run at the same
\* time return different counts, each the count that its own upsert
\* stored: two calls that have their result in hand hold different values.
C32_ReturnsOwnCount ==
    \A t, o \in Tasks :
       (/\ t # o
        /\ pc[t] = "inc_return"
        /\ pc[o] = "inc_return"
        /\ key[t] = key[o])
          => ret[t] # ret[o]

\* ----------------------------------------------------- empty new text
\* C33: an empty content / new_content stands for no line: insert_lines
\* with empty content at any after_line from 0 to n succeeds and leaves
\* the file as it was, byte for byte (cutting a text into lines and
\* joining them gives the text back, also when it ends in "\n"); after a
\* successful replace_file_chunk with empty new_content the lines of the
\* file are the old lines outside start..end and no blank line more.
C33_EmptyTextNoLine ==
    [][/\ join(split(ReadText(fs, ThePath))) = ReadText(fs, ThePath)
       /\ (LineStep("insert_lines") /\ io'.args[2] = <<>>
             /\ 0 <= io'.args[1] /\ io'.args[1] <= Len(OldLines))
             => (call'.result = "ok" /\ fs' = fs)
       /\ (LineStep("replace_file_chunk") /\ io'.args[3] = <<>>
             /\ call'.result = "ok")
             => NewLines = SubSeq(OldLines, 1, io'.args[1] - 1)
                             \o SubSeq(OldLines, io'.args[2] + 1,
                                       Len(OldLines))]_vars
\* ------------------------------------------- attempts counted and runs
\* C35: a fix attempt is counted before it runs and is never rolled back:
\* handle_fixpr starts only from a committed increment, every committed
\* increment of the task is followed by the start of handle_fixpr (so the
\* runs started for a key, failed ones included, are as many as the
\* increments), and neither a failing run nor the except clause changes
\* the table
C35_CountedBeforeRun ==
    [][\A t \in Tasks :
          /\ (Steps(t) /\ pc'[t] = "handle_fixpr") => pc[t] = "inc_select"
          /\ (Steps(t) /\ pc[t] = "inc_select" /\ kind[t] = "fixpr")
                => pc'[t] = "handle_fixpr"
          /\ (Steps(t) /\ pc[t] \in {"handle_fixpr", "except"})
                => store' = store]_vars

\* ------------------------------------------------- one key, one record
\* C37: store operations on one PR key never change the record of another
\* key: a step of a task, whether it runs increment_fix_attempts or
\* mark_pr_completed directly or as part of a fix or a review, leaves the
\* record of every key other than the task's own as it was, in every
\* interleaving
C37_OtherKeysUntouched ==
    [][\A t \in Tasks :
          Steps(t) => \A k \in Keys \ {key[t]} : store'[k] = store[k]]_vars

\* two tasks work on different keys at the same time: one has just
\* committed its increment, the other is about to commit its mark on a key
\* that was counted before
C37_Witness ==
    \E t \in Tasks, u \in Tasks :
       /\ key[t] \in Keys /\ key[u] \in Keys /\ key[t] # key[u]
       /\ pc[t] = "inc_select"
       /\ pc[u] = "mark_commit"
       /\ store[key[t]].attempts = 1
       /\ store[key[u]].attempts = 1
       /\ ~store[key[u]].completed

\* ---------------------------------------------------------- branch names
\* C38: get_unique_branch_name terminates for every finite set of remote
\* branches and returns a name b with origin/b not among them: base_name
\* when origin/base_name is free, otherwise base_name_k for the smallest
\* k >= 1 with origin/base_name_k free
C38_UniqueBranchName ==
    /\ [](gpc = "done"
            => /\ OriginRef(branch_name) \notin remote_branches
               /\ OriginRef(base_name) \notin remote_branches
                    => branch_name = base_name
               /\ OriginRef(base_name) \in remote_branches
                    => \E k \in 1..(Cardinality(remote_branches) + 1) :
                          /\ branch_name = Candidate(base_name, k)
                          /\ \A j \in 1..(k - 1) :
                                OriginRef(Candidate(base_name, j))
                                  \in remote_branches)
    /\ (gpc = "check" ~> gpc = "done")

\* the remote has b, b_1 and b_2 but not b_3: the call for b has returned
\* b_3 after three turns of the loop
C38_Witness ==
    /\ gpc = "done"
    /\ base_name = <<"b">>
    /\ {OriginRef(<<"b">>), OriginRef(<<"b", "_", "1">>),
        OriginRef(<<"b", "_", "2">>)} \subseteq remote_branches
    /\ OriginRef(<<"b", "_", "3">>) \notin remote_branches
    /\ attempt = 3
    /\ branch_name = <<"b", "_", "3">>

\* the call made was search_files / grep_search and gave a result
Searched(tool) == call.tool = tool /\ call.result = "ok"

\* C34: grep output is bounded: whatever the tree, the query, the path and
\* the file pattern, a result of grep_search holds at most 100 matches over
\* all files, and the content of every match is at most 200 characters
C34_GrepBounded ==
    Searched("grep_search")
      => /\ Len(found.matches) <= 100
         /\ \A i \in 1..Len(found.matches) :
               Len(found.matches[i].content) <= 200

\* the file has a line of 201 letters and 100 more lines that match: the
\* result holds 100 matches and the first one's content is 200 letters
C34_Witness ==
    /\ Searched("grep_search")
    /\ Len(split(ReadText(fs, ThePath))) = 101
    /\ Len(split(ReadText(fs, ThePath))[1]) = 201
    /\ found.args = <<<<"q">>, Rel(<<>>), Rel(<<"**", "*">>)>>
    /\ Len(found.matches) = 100
    /\ Len(found.matches[1].content) = 200
    /\ found.matches[100] = [file |-> <<"f">>, line |-> 100, content |-> <<"q">>]

\* the path, given relative to the root, stays in the root by its names
\* alone (".." taken by name), whatever the links are
NamedInside(rel_path) ==
    Within(base_dir, Normpath(<<>>, base_dir \o rel_path))

\* the file that the path leads to is under the root, by the test that
\* _check_path makes
UnderRoot(rel_path) == check_path(fs, base_dir, Rel(rel_path)).ok

\* C36: search and grep never report or read a file outside the root:
\* whatever the pattern / file_pattern, ".." among its parts included, every
\* path in the result of search_files and the file of every match in the
\* result of grep_search lies under the root
C36_SearchInsideRoot ==
    /\ Searched("search_files") => \A p \in found.files : NamedInside(p)
    /\ Searched("grep_search")
         => \A i \in 1..Len(found.matches) : UnderRoot(found.matches[i].file)

====
